---- MODULE Spec2Model ----
(***************************************************************************)
(* Polarity: the deterministic game-state engine of the web client         *)
(* (level normalizer, grid codec, game-mode state machine, game loop).     *)
(*                                                                         *)
(* Units.  Lengths are in 1/SCALE pixel, times in 1/TIME_SCALE ms, so      *)
(* that GRAVITY (0.0625 px) and PHYSICS_DT (1000/60 ms) are integers.      *)
(* Grids are indexed grid[y][x] with y, x in 0..PLAY_GRID_SIZE-1, as in    *)
(* the source; JavaScript arrays of stages and targets are sequences, so   *)
(* stages[i] of the source is stages[i+1] here.                            *)
(***************************************************************************)
EXTENDS Integers, Sequences, FiniteSets, TLC

\* ------------------------------------------------------------------------
\* Program constants
\* ------------------------------------------------------------------------
SCALE == 16
TIME_SCALE == 3
PLAY_GRID_SIZE == 6
CANVAS_PX == 360
CANVAS_WIDTH == CANVAS_PX * SCALE
PLAY_CELL_SIZE == CANVAS_WIDTH \div PLAY_GRID_SIZE
PLAYER_SIZE == 25 * SCALE
TARGET_SIZE == 22 * SCALE
ATTRACTOR_SIZE == 22 * SCALE
SPRINT_TARGET_SCORE == 250
TIME_ATTACK_DURATION == 30
COLLECT_POINTS == 10
PHYSICS_DT == (1000 * TIME_SCALE) \div 60
MAX_PHYSICS_STEPS == 2
MAX_BACKLOG == 2000 * TIME_SCALE
TIMER_PERIOD == 1000 * TIME_SCALE

GameModes == {"timeAttack", "sprint", "staged"}
Coords == 0 .. (PLAY_GRID_SIZE - 1)
AllCells == Coords \X Coords

\* ------------------------------------------------------------------------
\* Bounds of the model
\* ------------------------------------------------------------------------
MaxStages == 2
MaxTargets == 2

\* ------------------------------------------------------------------------
\* Grids and levels
\* ------------------------------------------------------------------------
\* A grid written as a tuple of rows, read as grid[y][x].
GridOf(rows) == [y \in Coords |-> [x \in Coords |-> rows[y + 1][x + 1]]]

\* The null sentinel of normalizeLevelData.
NullGrid == << >>

\* The value of currentLevelData before the first load.
NullLevel == [gameMode |-> "null", baseGrid |-> NullGrid, stages |-> << >>]

Pt(px, py) == [x |-> px, y |-> py]

MkLevel(mode, grid, stgs) == [gameMode |-> mode, baseGrid |-> grid, stages |-> stgs]

defaultLevelData ==
  MkLevel("timeAttack",
          GridOf(<< <<" ", " ", " ", " ", " ", "R">>,
                    <<" ", " ", " ", " ", " ", " ">>,
                    <<" ", " ", " ", " ", " ", " ">>,
                    <<" ", " ", "B", "P", " ", " ">>,
                    <<" ", " ", " ", " ", " ", " ">>,
                    <<" ", " ", " ", " ", " ", " ">> >>),
          << >>)

\* A base grid with walls.
WallGrid ==
  GridOf(<< <<"P", " ", "W", " ", " ", "R">>,
            <<" ", " ", "W", " ", " ", " ">>,
            <<" ", " ", " ", " ", " ", " ">>,
            <<" ", " ", "B", " ", " ", " ">>,
            <<" ", " ", " ", " ", " ", " ">>,
            <<" ", " ", " ", " ", " ", " ">> >>)

\* A base grid that already holds a target cell (a legacy flat grid).
FlatGrid ==
  GridOf(<< <<" ", " ", " ", " ", " ", "R">>,
            <<" ", "T", " ", " ", " ", " ">>,
            <<" ", " ", " ", " ", " ", " ">>,
            <<" ", " ", "B", "P", " ", " ">>,
            <<" ", " ", " ", " ", " ", " ">>,
            <<" ", " ", " ", " ", " ", " ">> >>)

\* stages[i] of the source: the stage record, or "undefined".
HasStage(levelData, stageIndex) ==
  /\ stageIndex >= 0
  /\ stageIndex < Len(levelData.stages)

StageAt(levelData, stageIndex) == levelData.stages[stageIndex + 1]

\* ------------------------------------------------------------------------
\* Level normalizer
\* ------------------------------------------------------------------------
\* The condition under which a stage target is written into the merged grid.
TargetInRange(t) ==
  /\ t.y >= 0 /\ t.y < PLAY_GRID_SIZE
  /\ t.x >= 0 /\ t.x < PLAY_GRID_SIZE

\* A variant of the loop that gives up at the first out-of-range target.
RECURSIVE OverlayTargets_stopsAtBad(_, _, _)
OverlayTargets_stopsAtBad(grid, targs, k) ==
  IF k > Len(targs) THEN grid
  ELSE IF ~TargetInRange(targs[k]) THEN grid
  ELSE OverlayTargets_stopsAtBad([grid EXCEPT ![targs[k].y][targs[k].x] = "T"], targs, k + 1)

\* The loop over stage.targets: each in-range target overwrites its cell.
RECURSIVE OverlayTargets(_, _, _)
OverlayTargets(grid, targs, k) ==
  IF k > Len(targs) THEN grid
  ELSE LET t == targs[k]
           g2 == IF TargetInRange(t)
                 THEN [grid EXCEPT ![t.y][t.x] = "T"]
                 ELSE grid
       IN OverlayTargets(g2, targs, k + 1)

\* A stage-0-for-everything variant: the requested index is ignored.
normalizeLevelData_ignoresIndex(levelData, stageIndex) ==
  IF levelData.gameMode \in {"timeAttack", "sprint"} THEN levelData.baseGrid
  ELSE IF ~HasStage(levelData, 0) THEN NullGrid
  ELSE OverlayTargets(levelData.baseGrid, StageAt(levelData, 0).targets, 1)

\* A variant that falls back to the base grid when the stage is missing.
normalizeLevelData_noNull(levelData, stageIndex) ==
  IF levelData.gameMode \in {"timeAttack", "sprint"} THEN levelData.baseGrid
  ELSE IF ~HasStage(levelData, stageIndex) THEN levelData.baseGrid
  ELSE OverlayTargets(levelData.baseGrid, StageAt(levelData, stageIndex).targets, 1)

\* normalizeLevelData: the copy of baseGrid for timeAttack/sprint, null for a
\* missing stage, otherwise the copy of baseGrid with the stage's targets.
normalizeLevelData(levelData, stageIndex) ==
  IF levelData.gameMode \in {"timeAttack", "sprint"} THEN levelData.baseGrid
  ELSE IF ~HasStage(levelData, stageIndex) THEN NullGrid
  ELSE OverlayTargets(levelData.baseGrid, StageAt(levelData, stageIndex).targets, 1)

\* The level object after the call: rows are copied (map + spread) before any
\* write, so the writes of the overlay land in the copy.
LevelAfterNormalize(levelData, stageIndex) == levelData

\* ------------------------------------------------------------------------
\* Grid codec
\* ------------------------------------------------------------------------
\* Pixel position of the entity drawn in a cell (centred with the target's
\* padding).
playGridToPixel(gridX, gridY) ==
  LET padding == (PLAY_CELL_SIZE - TARGET_SIZE) \div 2
  IN [x |-> gridX * PLAY_CELL_SIZE + padding, y |-> gridY * PLAY_CELL_SIZE + padding]

\* Row-major scan order of the codec: cell k (from 1) is (x, y).
ScanCell(k) == Pt((k - 1) % PLAY_GRID_SIZE, (k - 1) \div PLAY_GRID_SIZE)

ScanOrder == [k \in 1 .. (PLAY_GRID_SIZE * PLAY_GRID_SIZE) |-> ScanCell(k)]

CellsWith(grid, code) == SelectSeq(ScanOrder, LAMBDA c : grid[c.y][c.x] = code)

MkTarget(pos) == [x |-> pos.x, y |-> pos.y, collected |-> FALSE]

\* parseGrid: every "P" cell overwrites playerX/playerY in scan order, the
\* default being (2, 2); the other codes are appended to their lists.
parseGrid(grid) ==
  LET ps == CellsWith(grid, "P")
      rs == CellsWith(grid, "R")
      bs == CellsWith(grid, "B")
      ts == CellsWith(grid, "T")
      ws == CellsWith(grid, "W")
  IN [playerX |-> IF Len(ps) = 0 THEN 2 ELSE ps[Len(ps)].x,
      playerY |-> IF Len(ps) = 0 THEN 2 ELSE ps[Len(ps)].y,
      reds |-> [k \in 1 .. Len(rs) |-> playGridToPixel(rs[k].x, rs[k].y)],
      blues |-> [k \in 1 .. Len(bs) |-> playGridToPixel(bs[k].x, bs[k].y)],
      targs |-> [k \in 1 .. Len(ts) |-> MkTarget(playGridToPixel(ts[k].x, ts[k].y))],
      wallList |-> [k \in 1 .. Len(ws) |->
                      [x |-> ws[k].x * PLAY_CELL_SIZE, y |-> ws[k].y * PLAY_CELL_SIZE]]]

\* Axis-aligned box overlap, as written in every collision test of the source.
Overlaps(ax, ay, aw, bx, by, bw) ==
  /\ ax < bx + bw
  /\ ax + aw > bx
  /\ ay < by + bw
  /\ ay + aw > by

\* ------------------------------------------------------------------------
\* Procedural target spawn
\* ------------------------------------------------------------------------
\* A variant that tests the walls and the red attractors only.
isValidTargetPosition_wallsAndReds(x, y, wallList, reds, blues) ==
  /\ \A k \in 1 .. Len(wallList) :
        ~Overlaps(x, y, TARGET_SIZE, wallList[k].x, wallList[k].y, PLAY_CELL_SIZE)
  /\ \A k \in 1 .. Len(reds) :
        ~Overlaps(x, y, TARGET_SIZE, reds[k].x, reds[k].y, ATTRACTOR_SIZE)

isValidTargetPosition(x, y, wallList, reds, blues) ==
  /\ \A k \in 1 .. Len(wallList) :
        ~Overlaps(x, y, TARGET_SIZE, wallList[k].x, wallList[k].y, PLAY_CELL_SIZE)
  /\ \A k \in 1 .. Len(reds) :
        ~Overlaps(x, y, TARGET_SIZE, reds[k].x, reds[k].y, ATTRACTOR_SIZE)
  /\ \A k \in 1 .. Len(blues) :
        ~Overlaps(x, y, TARGET_SIZE, blues[k].x, blues[k].y, ATTRACTOR_SIZE)

\* spawnRandomTargets.  rnd.rows is the set of rows i whose Math.random()
\* exceeded 0.5, rnd.cells the three (gridX, gridY) draws of the second loop.
spawnRandomTargets(wallList, reds, blues, rnd) ==
  LET edge == SelectSeq([i \in 1 .. PLAY_GRID_SIZE |-> Pt(5, i - 1)],
                        LAMBDA c : c.y \in rnd.rows)
      cand == edge \o rnd.cells
      pix == [k \in 1 .. Len(cand) |-> playGridToPixel(cand[k].x, cand[k].y)]
      ok == SelectSeq(pix, LAMBDA p : isValidTargetPosition(p.x, p.y, wallList, reds, blues))
  IN [k \in 1 .. Len(ok) |-> MkTarget(ok[k])]

\* ------------------------------------------------------------------------
\* Game state.  The module-level variables of the runtime, gathered in a
\* record g so that a handler calling another composes as a function:
\*   currentLevelData, currentPlayStageIndex, totalStages, score,
\*   timeRemaining, sprintTimeElapsed, isGameOver, player, targets, walls,
\*   redAttractors, blueAttractors, and sinceTimerUpdate, which stands for
\*   Date.now() - lastTimerUpdate.
\* ------------------------------------------------------------------------
PlayerStartPixel(cellIndex) == cellIndex * PLAY_CELL_SIZE + (PLAY_CELL_SIZE - PLAYER_SIZE) \div 2

\* The module-level initializers.
InitialGame ==
  [currentLevelData |-> NullLevel,
   currentPlayStageIndex |-> 0,
   totalStages |-> 0,
   score |-> 0,
   timeRemaining |-> 30,
   sprintTimeElapsed |-> 0,
   isGameOver |-> FALSE,
   sinceTimerUpdate |-> 0,
   player |-> [x |-> CANVAS_WIDTH \div 2 - PLAYER_SIZE \div 2,
               y |-> CANVAS_WIDTH \div 2 - PLAYER_SIZE \div 2,
               vx |-> 0, vy |-> 0, hasAttracted |-> FALSE],
   targets |-> << >>,
   walls |-> << >>,
   redAttractors |-> << >>,
   blueAttractors |-> << >>]

\* levelData.stages?.length || 1
StageCount(levelData) == IF Len(levelData.stages) = 0 THEN 1 ELSE Len(levelData.stages)

\* loadLevel(levelData, stageIndex, resetState); rnd feeds spawnRandomTargets.
loadLevel(g, levelData, stageIndex, resetState, rnd) ==
  LET g0 == [g EXCEPT !.currentLevelData = levelData,
                      !.currentPlayStageIndex = stageIndex,
                      !.totalStages = StageCount(levelData)]
      grid == normalizeLevelData(levelData, stageIndex)
      g1 == IF resetState
            THEN [g0 EXCEPT !.score = 0,
                            !.sprintTimeElapsed =
                               IF levelData.gameMode \in {"sprint", "staged"} THEN 0 ELSE @,
                            !.timeRemaining =
                               IF levelData.gameMode \in {"sprint", "staged"}
                               THEN @ ELSE TIME_ATTACK_DURATION,
                            !.player.vx = 0,
                            !.player.vy = 0]
            ELSE g0
      parsed == parseGrid(grid)
      g2 == [g1 EXCEPT !.isGameOver = FALSE,
                       !.sinceTimerUpdate = 0,
                       !.player.hasAttracted = FALSE,
                       !.player.x = IF resetState THEN PlayerStartPixel(parsed.playerX) ELSE @,
                       !.player.y = IF resetState THEN PlayerStartPixel(parsed.playerY) ELSE @,
                       !.redAttractors = parsed.reds,
                       !.blueAttractors = parsed.blues,
                       !.walls = parsed.wallList]
  IN IF grid = NullGrid THEN g0
     ELSE [g2 EXCEPT !.targets =
             IF levelData.gameMode \in {"timeAttack", "sprint"}
             THEN spawnRandomTargets(parsed.wallList, parsed.reds, parsed.blues, rnd)
             ELSE parsed.targs]

loadDefaultLevel(g, rnd) == loadLevel(g, defaultLevelData, 0, TRUE, rnd)

AllCollected(targs) == \A k \in 1 .. Len(targs) : targs[k].collected

\* ------------------------------------------------------------------------
\* Physics step, as seen by the mode state machine
\* ------------------------------------------------------------------------
\* applyAttraction + updatePlayer.  The integrator works on floating-point
\* numbers; the mode state machine reads the player only through its box, so
\* the position and velocity a step ends in are an input of the step, drawn
\* from the set the specification names.  hasAttracted is set when a key is
\* held.
updatePlayer(g, heldKeys, move) ==
  [g EXCEPT !.player.hasAttracted = @ \/ heldKeys.x \/ heldKeys.z,
            !.player.x = move.x,
            !.player.y = move.y,
            !.player.vx = move.vx,
            !.player.vy = move.vy]

\* ------------------------------------------------------------------------
\* Physics step, computed.  The source works on floating-point numbers; here
\* every length is a whole number of 1/16 px, the square root is rounded
\* down and a quotient is cut off towards zero.
\* ------------------------------------------------------------------------
GRAVITY == SCALE \div 16
PHYSICS_SPEED == 2
MIN_ATTRACTION_DISTANCE == 10 * SCALE
ATTRACTION_FORCE_NUMERATOR == 500
ATTRACTION_FORCE_DAMPENING == 200
\* The force is kept to 1/16 of a velocity unit until it is split in x and y.
FORCE_FRACTION == 16

Quot(a, b) == IF a >= 0 THEN a \div b ELSE 0 - ((0 - a) \div b)

\* The largest r in lo .. hi with r * r <= n.
RECURSIVE SqrtSearch(_, _, _)
SqrtSearch(n, lo, hi) ==
  IF lo = hi THEN lo
  ELSE IF ((lo + hi + 1) \div 2) * ((lo + hi + 1) \div 2) <= n
       THEN SqrtSearch(n, (lo + hi + 1) \div 2, hi)
       ELSE SqrtSearch(n, lo, (lo + hi + 1) \div 2 - 1)

Sqrt(n) == SqrtSearch(n, 0, 16384)

\* dx, dy from the player's centre to the attractor's centre.
CentreDx(plr, attractor) == attractor.x + ATTRACTOR_SIZE \div 2 - (plr.x + PLAYER_SIZE \div 2)
CentreDy(plr, attractor) == attractor.y + ATTRACTOR_SIZE \div 2 - (plr.y + PLAYER_SIZE \div 2)

\* dist * dist; the comparisons of dist are made on it.
Dist2(plr, attractor) ==
  CentreDx(plr, attractor) * CentreDx(plr, attractor)
  + CentreDy(plr, attractor) * CentreDy(plr, attractor)

\* getClosestAttractor: the index of the first attractor at the least
\* distance (dist < closestDist keeps the earlier one), 0 for null.
getClosestAttractor(plr, attractors) ==
  IF Len(attractors) = 0 THEN 0
  ELSE CHOOSE k \in 1 .. Len(attractors) :
         \A j \in 1 .. Len(attractors) :
            /\ Dist2(plr, attractors[k]) <= Dist2(plr, attractors[j])
            /\ j < k => Dist2(plr, attractors[k]) < Dist2(plr, attractors[j])

\* (dx / dist) * force and (dy / dist) * force for one attractor.
ForceOf(dx, dy, d2, dist) ==
  LET force == (ATTRACTION_FORCE_NUMERATOR * PHYSICS_SPEED * SCALE * SCALE * SCALE
                  * FORCE_FRACTION)
                 \div (d2 + ATTRACTION_FORCE_DAMPENING * SCALE * SCALE)
  IN [vx |-> Quot(dx * force, dist * FORCE_FRACTION),
      vy |-> Quot(dy * force, dist * FORCE_FRACTION)]

NoForce == [vx |-> 0, vy |-> 0]

\* A variant that adds up the forces of all attractors of the polarity.
RECURSIVE SumOfForces(_, _, _)
SumOfForces(plr, attractors, k) ==
  IF k > Len(attractors) THEN NoForce
  ELSE LET d2 == Dist2(plr, attractors[k])
           f == IF d2 > MIN_ATTRACTION_DISTANCE * MIN_ATTRACTION_DISTANCE
                THEN ForceOf(CentreDx(plr, attractors[k]), CentreDy(plr, attractors[k]),
                             d2, Sqrt(d2))
                ELSE NoForce
           rest == SumOfForces(plr, attractors, k + 1)
       IN [vx |-> f.vx + rest.vx, vy |-> f.vy + rest.vy]

Attraction_sumOfAll(plr, attractors) == SumOfForces(plr, attractors, 1)

\* One block of applyAttraction: the pull of the closest attractor of a
\* polarity, nothing without attractor or within MIN_ATTRACTION_DISTANCE.
Attraction(plr, attractors) ==
  LET k == getClosestAttractor(plr, attractors)
  IN IF k = 0 THEN NoForce
     ELSE LET d2 == Dist2(plr, attractors[k])
          IN IF d2 > MIN_ATTRACTION_DISTANCE * MIN_ATTRACTION_DISTANCE
             THEN ForceOf(CentreDx(plr, attractors[k]), CentreDy(plr, attractors[k]),
                          d2, Sqrt(d2))
             ELSE NoForce

\* applyAttraction: keys.x pulls towards red, keys.z towards blue; both
\* blocks read the same player centre.
applyAttraction(g, heldKeys) ==
  LET red == IF heldKeys.x THEN Attraction(g.player, g.redAttractors) ELSE NoForce
      blue == IF heldKeys.z THEN Attraction(g.player, g.blueAttractors) ELSE NoForce
  IN [g EXCEPT !.player.vx = @ + red.vx + blue.vx,
               !.player.vy = @ + red.vy + blue.vy]

\* applyAttraction of src/index.ts, the first version of the game: force =
\* 800 / (dist * dist + 100), no PHYSICS_SPEED.
OLD_FORCE_NUMERATOR == 800
OLD_FORCE_DAMPENING == 100

ForceOfOld(dx, dy, d2, dist) ==
  LET force == (OLD_FORCE_NUMERATOR * SCALE * SCALE * SCALE * FORCE_FRACTION)
                 \div (d2 + OLD_FORCE_DAMPENING * SCALE * SCALE)
  IN [vx |-> Quot(dx * force, dist * FORCE_FRACTION),
      vy |-> Quot(dy * force, dist * FORCE_FRACTION)]

\* attractors.forEach of src/index.ts: every attractor farther than 10 adds
\* its pull; dx and dy are centre to centre, so the sizes of that version
\* do not enter.
RECURSIVE PullOfEach(_, _, _)
PullOfEach(plr, attractors, k) ==
  IF k > Len(attractors) THEN plr
  ELSE LET d2 == Dist2(plr, attractors[k])
           f == IF d2 > MIN_ATTRACTION_DISTANCE * MIN_ATTRACTION_DISTANCE
                THEN ForceOfOld(CentreDx(plr, attractors[k]), CentreDy(plr, attractors[k]),
                                d2, Sqrt(d2))
                ELSE NoForce
       IN PullOfEach([plr EXCEPT !.vx = @ + f.vx, !.vy = @ + f.vy], attractors, k + 1)

\* applyAttraction of src/index.ts: the red list if keys.x, then the blue
\* list if keys.z, concatenated and walked through.
applyAttractionOld(g, heldKeys) ==
  LET attractors == (IF heldKeys.x THEN g.redAttractors ELSE << >>)
                      \o (IF heldKeys.z THEN g.blueAttractors ELSE << >>)
  IN [g EXCEPT !.player = PullOfEach(g.player, attractors, 1)]

\* A variant in which gravity does not wait for the first attraction.
Integrate_gravityAlways(plr, heldKeys) ==
  LET isAttracting == heldKeys.x \/ heldKeys.z
      vy == IF ~isAttracting THEN plr.vy + GRAVITY * PHYSICS_SPEED ELSE plr.vy
  IN [plr EXCEPT !.hasAttracted = @ \/ isAttracting,
                 !.vy = vy,
                 !.x = @ + plr.vx * PHYSICS_SPEED,
                 !.y = @ + vy * PHYSICS_SPEED]

\* updatePlayer, first part: hasAttracted, gravity, the move.
Integrate(plr, heldKeys) ==
  LET isAttracting == heldKeys.x \/ heldKeys.z
      attracted == plr.hasAttracted \/ isAttracting
      vy == IF attracted /\ ~isAttracting THEN plr.vy + GRAVITY * PHYSICS_SPEED ELSE plr.vy
  IN [plr EXCEPT !.hasAttracted = attracted,
                 !.vy = vy,
                 !.x = @ + plr.vx * PHYSICS_SPEED,
                 !.y = @ + vy * PHYSICS_SPEED]

\* updatePlayer, second part: the four tests against the canvas, in order.
ClampX(plr) ==
  LET p1 == IF plr.x < 0 THEN [plr EXCEPT !.x = 0, !.vx = 0] ELSE plr
  IN IF p1.x + PLAYER_SIZE > CANVAS_WIDTH
     THEN [p1 EXCEPT !.x = CANVAS_WIDTH - PLAYER_SIZE, !.vx = 0] ELSE p1

ClampY(plr) ==
  LET p1 == IF plr.y < 0 THEN [plr EXCEPT !.y = 0, !.vy = 0] ELSE plr
  IN IF p1.y + PLAYER_SIZE > CANVAS_WIDTH
     THEN [p1 EXCEPT !.y = CANVAS_WIDTH - PLAYER_SIZE, !.vy = 0] ELSE p1

ClampToField(plr) == ClampY(ClampX(plr))

OverlapsWall(plr, wall) ==
  Overlaps(plr.x, plr.y, PLAYER_SIZE, wall.x, wall.y, PLAY_CELL_SIZE)

Min4(a, b, c, d) ==
  LET ab == IF a <= b THEN a ELSE b
      cd == IF c <= d THEN c ELSE d
  IN IF ab <= cd THEN ab ELSE cd

\* A variant that tests top and bottom before left and right.
PushOut_topFirst(plr, wall) ==
  LET overlapLeft == plr.x + PLAYER_SIZE - wall.x
      overlapRight == wall.x + PLAY_CELL_SIZE - plr.x
      overlapTop == plr.y + PLAYER_SIZE - wall.y
      overlapBottom == wall.y + PLAY_CELL_SIZE - plr.y
      minOverlap == Min4(overlapLeft, overlapRight, overlapTop, overlapBottom)
  IN IF minOverlap = overlapTop THEN [plr EXCEPT !.y = wall.y - PLAYER_SIZE, !.vy = 0]
     ELSE IF minOverlap = overlapBottom
     THEN [plr EXCEPT !.y = wall.y + PLAY_CELL_SIZE, !.vy = 0]
     ELSE IF minOverlap = overlapLeft THEN [plr EXCEPT !.x = wall.x - PLAYER_SIZE, !.vx = 0]
     ELSE [plr EXCEPT !.x = wall.x + PLAY_CELL_SIZE, !.vx = 0]

\* The body of the overlap test of one wall: the side of the least overlap,
\* tested in the order left, right, top, bottom.
PushOut(plr, wall) ==
  LET overlapLeft == plr.x + PLAYER_SIZE - wall.x
      overlapRight == wall.x + PLAY_CELL_SIZE - plr.x
      overlapTop == plr.y + PLAYER_SIZE - wall.y
      overlapBottom == wall.y + PLAY_CELL_SIZE - plr.y
      minOverlap == Min4(overlapLeft, overlapRight, overlapTop, overlapBottom)
  IN IF minOverlap = overlapLeft THEN [plr EXCEPT !.x = wall.x - PLAYER_SIZE, !.vx = 0]
     ELSE IF minOverlap = overlapRight
     THEN [plr EXCEPT !.x = wall.x + PLAY_CELL_SIZE, !.vx = 0]
     ELSE IF minOverlap = overlapTop THEN [plr EXCEPT !.y = wall.y - PLAYER_SIZE, !.vy = 0]
     ELSE [plr EXCEPT !.y = wall.y + PLAY_CELL_SIZE, !.vy = 0]

\* walls.forEach: each wall in turn sees the player as the walls before it
\* left them.
RECURSIVE ResolveWalls(_, _, _)
ResolveWalls(plr, wallList, k) ==
  IF k > Len(wallList) THEN plr
  ELSE ResolveWalls(IF OverlapsWall(plr, wallList[k]) THEN PushOut(plr, wallList[k]) ELSE plr,
                    wallList, k + 1)

\* updatePlayer on the state left by applyAttraction.
MovePlayer(g, heldKeys) ==
  [g EXCEPT !.player = ResolveWalls(ClampToField(Integrate(g.player, heldKeys)), g.walls, 1)]

\* A step that does nothing once the game is over.
PhysicsStep_stopsWhenOver(g, heldKeys) ==
  IF g.isGameOver THEN g ELSE MovePlayer(applyAttraction(g, heldKeys), heldKeys)

\* One iteration of the physics loop without checkCollisions.
PhysicsStep(g, heldKeys) == MovePlayer(applyAttraction(g, heldKeys), heldKeys)

PlayerHits(g, t) ==
  Overlaps(g.player.x, g.player.y, PLAYER_SIZE, t.x, t.y, TARGET_SIZE)

\* The sprint test with a strict comparison.
SprintReached_strict(newScore) == newScore > SPRINT_TARGET_SCORE

\* score >= SPRINT_TARGET_SCORE
SprintReached(newScore) == newScore >= SPRINT_TARGET_SCORE

\* currentPlayStageIndex >= totalStages - 1
LastStage(g) == g.currentPlayStageIndex >= g.totalStages - 1

\* The body of targets.forEach in checkCollisions, for targets k, k+1, ...
RECURSIVE CollectTargets(_, _)
CollectTargets(g, k) ==
  IF k > Len(g.targets) THEN g
  ELSE LET t == g.targets[k]
       IN IF t.collected \/ ~PlayerHits(g, t) THEN CollectTargets(g, k + 1)
          ELSE LET g1 == [g EXCEPT !.targets[k].collected = TRUE,
                                   !.score = @ + COLLECT_POINTS]
                   g2 == IF /\ g1.currentLevelData.gameMode = "sprint"
                            /\ SprintReached(g1.score)
                         THEN [g1 EXCEPT !.isGameOver = TRUE] ELSE g1
                   g3 == IF /\ g2.currentLevelData.gameMode = "staged"
                            /\ AllCollected(g2.targets)
                            /\ LastStage(g2)
                         THEN [g2 EXCEPT !.isGameOver = TRUE] ELSE g2
               IN CollectTargets(g3, k + 1)

\* The stage advance with a full reset.
AdvanceStage_resets(g, rnd) ==
  loadLevel(g, g.currentLevelData, g.currentPlayStageIndex + 1, TRUE, rnd)

\* A stage advance that leaves out a stage when there are two more.
AdvanceStage_skipsStage(g, rnd) ==
  loadLevel(g, g.currentLevelData,
            IF g.currentPlayStageIndex + 2 < g.totalStages
            THEN g.currentPlayStageIndex + 2 ELSE g.currentPlayStageIndex + 1,
            FALSE, rnd)

\* currentPlayStageIndex++; loadLevel(currentLevelData, currentPlayStageIndex, false)
AdvanceStage(g, rnd) ==
  loadLevel(g, g.currentLevelData, g.currentPlayStageIndex + 1, FALSE, rnd)

\* The advance test, off by one.
HasNextStage_offByOne(g) == g.currentPlayStageIndex < g.totalStages

\* currentPlayStageIndex < totalStages - 1
HasNextStage(g) == g.currentPlayStageIndex < g.totalStages - 1

\* The full-clear branch of checkCollisions.
FullClear(g, rnd) ==
  IF ~AllCollected(g.targets) THEN g
  ELSE IF g.currentLevelData.gameMode \in {"timeAttack", "sprint"}
       THEN [g EXCEPT !.targets =
               spawnRandomTargets(g.walls, g.redAttractors, g.blueAttractors, rnd)]
  ELSE IF HasNextStage(g)
       THEN AdvanceStage(g, rnd)
  ELSE IF g.currentLevelData.gameMode = "staged"
       THEN [g EXCEPT !.isGameOver = TRUE]
  ELSE g

\* A variant that pays a full clear with the points of one more target.
checkCollisions_clearBonus(g, rnd) ==
  FullClear([CollectTargets(g, 1) EXCEPT
               !.score = IF AllCollected(CollectTargets(g, 1).targets)
                         THEN @ + COLLECT_POINTS ELSE @],
            rnd)

checkCollisions(g, rnd) == FullClear(CollectTargets(g, 1), rnd)

\* ------------------------------------------------------------------------
\* Timer
\* ------------------------------------------------------------------------
\* The zero test of the countdown, off by one.
TimeUp_late(t) == t < 0

\* timeRemaining <= 0
TimeUp(t) == t <= 0

updateTimer(g) ==
  IF g.isGameOver THEN g
  ELSE IF g.sinceTimerUpdate >= TIMER_PERIOD
       THEN LET g1 == [g EXCEPT !.sinceTimerUpdate = @ - TIMER_PERIOD]
            IN IF g1.currentLevelData.gameMode = "timeAttack"
               THEN [g1 EXCEPT !.timeRemaining = @ - 1,
                               !.isGameOver = IF TimeUp(g1.timeRemaining - 1) THEN TRUE ELSE @]
               ELSE IF g1.currentLevelData.gameMode \in {"sprint", "staged"}
                    THEN [g1 EXCEPT !.sprintTimeElapsed = @ + 1]
                    ELSE g1
       ELSE g

\* ------------------------------------------------------------------------
\* Level sources and restart
\* ------------------------------------------------------------------------
\* checkForEditorLevel: the level of the URL hash, else the level of the
\* session store ("polarity_editor_level"); NullLevel stands for an absent
\* payload.  Returns the state, whether a level was found, and the hash left.
checkForEditorLevel(g, hash, stored, rnd) ==
  IF hash # NullLevel
  THEN [g |-> loadLevel(g, hash, 0, TRUE, rnd), found |-> TRUE, hash |-> NullLevel]
  ELSE IF stored # NullLevel
       THEN [g |-> [loadLevel(g, stored, 0, TRUE, rnd) EXCEPT !.score = 0],
             found |-> TRUE, hash |-> hash]
       ELSE [g |-> g, found |-> FALSE, hash |-> hash]

\* The body shared by initializeGame and restartGame: the editor level if
\* there is one, the default level otherwise.
LoadEditorOrDefault(g, hash, stored, rnd) ==
  LET r == checkForEditorLevel(g, hash, stored, rnd)
  IN IF r.found THEN r ELSE [r EXCEPT !.g = loadDefaultLevel(g, rnd)]

restartGame(g, hash, stored, rnd) ==
  LET g0 == [g EXCEPT !.isGameOver = FALSE, !.sinceTimerUpdate = 0]
      r == LoadEditorOrDefault(g0, hash, stored, rnd)
  IN [r EXCEPT !.g.score = 0]

\* ------------------------------------------------------------------------
\* Fixed-step accumulator
\* ------------------------------------------------------------------------
\* physicsAccumulatedTime += elapsed, then the ceiling of 2000 ms.
Backlog(acc, elapsed) ==
  LET a1 == acc + elapsed
  IN IF a1 > MAX_BACKLOG THEN MAX_BACKLOG ELSE a1

\* The while loop without its step limit: the whole backlog is served.
StepLoop_unbounded(acc, steps) ==
  [acc |-> acc % PHYSICS_DT, steps |-> steps + acc \div PHYSICS_DT]

\* The while loop of gameLoop: at most MAX_PHYSICS_STEPS steps are taken off
\* the accumulated time.
RECURSIVE StepLoop(_, _)
StepLoop(acc, steps) ==
  IF acc >= PHYSICS_DT /\ steps < MAX_PHYSICS_STEPS
  THEN StepLoop(acc - PHYSICS_DT, steps + 1)
  ELSE [acc |-> acc, steps |-> steps]

\* The accumulation at the head of gameLoop, for a frame `elapsed` after the
\* previous one.
Accumulate(acc, elapsed) == StepLoop(Backlog(acc, elapsed), 0)

\* ------------------------------------------------------------------------
\* Level validator (shared by the server and the editor)
\* ------------------------------------------------------------------------
GRID_SIZE == 6

isValidGridPos(gridX, gridY) ==
  /\ gridX >= 0 /\ gridX < GRID_SIZE
  /\ gridY >= 0 /\ gridY < GRID_SIZE

\* The null of findPlayerPosition.
NullPos == Pt(-1, -1)

\* findPlayerPosition: the first "P" in row-major order, or null.
findPlayerPosition(level) ==
  LET ps == CellsWith(level.baseGrid, "P")
  IN IF Len(ps) = 0 THEN NullPos ELSE ps[1]

\* The four directions and the four diagonals.
directions_diagonal ==
  << [dx |-> 0, dy |-> -1], [dx |-> 0, dy |-> 1], [dx |-> -1, dy |-> 0], [dx |-> 1, dy |-> 0],
     [dx |-> -1, dy |-> -1], [dx |-> 1, dy |-> -1], [dx |-> -1, dy |-> 1], [dx |-> 1, dy |-> 1] >>

\* up, down, left, right
directions == << [dx |-> 0, dy |-> -1], [dx |-> 0, dy |-> 1],
                 [dx |-> -1, dy |-> 0], [dx |-> 1, dy |-> 0] >>

\* The for loop over directions of both searches, from direction k on: an
\* in-bounds, unvisited, non-wall neighbour is marked and queued.
RECURSIVE Explore(_, _, _, _, _)
Explore(grid, current, queue, visited, k) ==
  IF k > Len(directions) THEN [queue |-> queue, visited |-> visited]
  ELSE LET newX == current.x + directions[k].dx
           newY == current.y + directions[k].dy
           push == /\ isValidGridPos(newX, newY)
                   /\ <<newX, newY>> \notin visited
                   /\ grid[newY][newX] # "W"
       IN Explore(grid, current,
                  IF push THEN Append(queue, Pt(newX, newY)) ELSE queue,
                  IF push THEN visited \cup {<<newX, newY>>} ELSE visited,
                  k + 1)

\* The while loop of isTargetReachable, on the search state s (queue and
\* visited); polls counts the queue.shift() calls.
RECURSIVE ReachLoop(_, _, _, _, _)
ReachLoop(grid, s, targetX, targetY, polls) ==
  IF Len(s.queue) = 0 THEN [found |-> FALSE, polls |-> polls]
  ELSE IF Head(s.queue).x = targetX /\ Head(s.queue).y = targetY
       THEN [found |-> TRUE, polls |-> polls + 1]
       ELSE ReachLoop(grid, Explore(grid, Head(s.queue), Tail(s.queue), s.visited, 1),
                      targetX, targetY, polls + 1)

\* isTargetReachable with the number of cells it took off its queue.
TargetSearch(level, targetX, targetY, playerPos) ==
  ReachLoop(level.baseGrid,
            [queue |-> << playerPos >>, visited |-> {<<playerPos.x, playerPos.y>>}],
            targetX, targetY, 0)

isTargetReachable(level, targetX, targetY, playerPos) ==
  TargetSearch(level, targetX, targetY, playerPos).found

\* The while loop of findAllReachableEmptySquares.
RECURSIVE EmptiesLoop(_, _, _)
EmptiesLoop(grid, s, reachableEmpties) ==
  IF Len(s.queue) = 0 THEN reachableEmpties
  ELSE EmptiesLoop(grid, Explore(grid, Head(s.queue), Tail(s.queue), s.visited, 1),
                   IF grid[Head(s.queue).y][Head(s.queue).x] = " "
                   THEN Append(reachableEmpties, Head(s.queue))
                   ELSE reachableEmpties)

\* A search that does not stop at walls: every empty cell is found.
findAllReachableEmptySquares_throughWalls(level, playerPos) ==
  CellsWith(level.baseGrid, " ")

\* A search that returns the wall cells as well.
findAllReachableEmptySquares_withWalls(level, playerPos) ==
  EmptiesLoop(level.baseGrid,
              [queue |-> << playerPos >>, visited |-> {<<playerPos.x, playerPos.y>>}],
              << >>) \o CellsWith(level.baseGrid, "W")

findAllReachableEmptySquares(level, playerPos) ==
  EmptiesLoop(level.baseGrid,
              [queue |-> << playerPos >>, visited |-> {<<playerPos.x, playerPos.y>>}],
              << >>)

\* A validation result {valid, error}; the error is its text and, for the
\* two per-stage texts, the stage number put in it; NullError is null.
NullError == [text |-> "null", stage |-> 0]

Invalid(text, stageNumber) == [valid |-> FALSE, error |-> [text |-> text, stage |-> stageNumber]]

Valid == [valid |-> TRUE, error |-> NullError]

\* The loop over stage.targets of validateLevel, from target k on.
RECURSIVE TargetsReachable(_, _, _, _)
TargetsReachable(level, targs, playerPos, k) ==
  IF k > Len(targs) THEN TRUE
  ELSE IF ~isTargetReachable(level, targs[k].x, targs[k].y, playerPos) THEN FALSE
  ELSE TargetsReachable(level, targs, playerPos, k + 1)

\* A loop that stops after the stage it starts with.
ValidateStages_oneStage(level, playerPos, stageIdx) ==
  IF stageIdx >= Len(level.stages) THEN Valid
  ELSE LET stage == StageAt(level, stageIdx)
       IN IF Len(stage.targets) = 0
          THEN Invalid("Stage has no targets", stageIdx + 1)
          ELSE IF ~TargetsReachable(level, stage.targets, playerPos, 1)
          THEN Invalid("Stage has unreachable target", stageIdx + 1)
          ELSE Valid

\* The loop over level.stages of validateLevel, from stage stageIdx on.
RECURSIVE ValidateStages(_, _, _)
ValidateStages(level, playerPos, stageIdx) ==
  IF stageIdx >= Len(level.stages) THEN Valid
  ELSE LET stage == StageAt(level, stageIdx)
       IN IF Len(stage.targets) = 0
          THEN Invalid("Stage has no targets", stageIdx + 1)
          ELSE IF ~TargetsReachable(level, stage.targets, playerPos, 1)
          THEN Invalid("Stage has unreachable target", stageIdx + 1)
          ELSE ValidateStages(level, playerPos, stageIdx + 1)

\* A validator that looks for the magnets before it looks for the player.
validateLevel_magnetsFirst(level) ==
  LET playerPos == findPlayerPosition(level)
      hasRed == Len(CellsWith(level.baseGrid, "R")) > 0
      hasBlue == Len(CellsWith(level.baseGrid, "B")) > 0
  IN IF ~hasRed THEN Invalid("At least one red magnet required", 0)
     ELSE IF ~hasBlue THEN Invalid("At least one blue magnet required", 0)
     ELSE IF playerPos = NullPos THEN Invalid("No player placed", 0)
     ELSE IF level.gameMode \in {"timeAttack", "sprint"}
          THEN IF Len(findAllReachableEmptySquares(level, playerPos))
                    # Len(CellsWith(level.baseGrid, " "))
               THEN Invalid("Level can have unreachable target", 0)
               ELSE Valid
     ELSE ValidateStages(level, playerPos, 0)

validateLevel(level) ==
  LET playerPos == findPlayerPosition(level)
      hasRed == Len(CellsWith(level.baseGrid, "R")) > 0
      hasBlue == Len(CellsWith(level.baseGrid, "B")) > 0
  IN IF playerPos = NullPos THEN Invalid("No player placed", 0)
     ELSE IF ~hasRed THEN Invalid("At least one red magnet required", 0)
     ELSE IF ~hasBlue THEN Invalid("At least one blue magnet required", 0)
     ELSE IF level.gameMode \in {"timeAttack", "sprint"}
          THEN IF Len(findAllReachableEmptySquares(level, playerPos))
                    # Len(CellsWith(level.baseGrid, " "))
               THEN Invalid("Level can have unreachable target", 0)
               ELSE Valid
     ELSE ValidateStages(level, playerPos, 0)

\* ------------------------------------------------------------------------
\* Legacy flat levels: { name, grid } without baseGrid, stages or gameMode
\* ------------------------------------------------------------------------
FlatLevel(grid) == [name |-> "legacy", grid |-> grid]

IsFlat(levelData) == "grid" \in DOMAIN levelData

\* What a call leaves when it throws instead of returning.
Thrown == << "TypeError" >>

\* normalizeLevelData of the game on a level of either shape: on a flat
\* level gameMode is undefined, so the stage is read, and
\* levelData.stages[stageIndex] throws because stages is undefined.
normalizeEitherShape(levelData, stageIndex) ==
  IF IsFlat(levelData) THEN Thrown ELSE normalizeLevelData(levelData, stageIndex)

\* normalizeLevelData of index.ts: the grid of a flat level as it is, the
\* merged grid of a level with stages, null otherwise.
normalizeLevelDataOld(levelData, stageIndex) ==
  IF IsFlat(levelData) THEN levelData.grid
  ELSE IF Len(levelData.stages) = 0 THEN NullGrid
  ELSE IF ~HasStage(levelData, stageIndex) THEN NullGrid
  ELSE OverlayTargets(levelData.baseGrid, StageAt(levelData, stageIndex).targets, 1)

DEFAULT_STAGE_COUNT == 3

\* convertSingleGridToMultiStage of the editor: the "T" cells become the
\* targets of the first stage, in scan order, and leave " " in the base
\* grid; empty stages fill up to DEFAULT_STAGE_COUNT.
convertSingleGridToMultiStage(levelData) ==
  LET ts == SelectSeq([k \in 1 .. (GRID_SIZE * GRID_SIZE) |->
                         Pt((k - 1) % GRID_SIZE, (k - 1) \div GRID_SIZE)],
                      LAMBDA c : levelData.grid[c.y][c.x] = "T")
      baseGrid == [y \in Coords |-> [x \in Coords |->
                     IF levelData.grid[y][x] = "T" THEN " " ELSE levelData.grid[y][x]]]
  IN MkLevel("staged", baseGrid,
             << [targets |-> ts] >>
               \o [k \in 1 .. (DEFAULT_STAGE_COUNT - 1) |-> [targets |-> << >>]])

\* ------------------------------------------------------------------------
\* The level editor
\* ------------------------------------------------------------------------
Tools == {"player", "red", "blue", "target", "wall", "eraser"}

TOOL_TO_LETTER ==
  [player |-> "P", red |-> "R", blue |-> "B", target |-> "T", wall |-> "W", eraser |-> " "]

\* createEmptyLevel: a grid of spaces with "P" at (2,2) and
\* DEFAULT_STAGE_COUNT stages without targets.
createEmptyLevel(gameMode) ==
  MkLevel(gameMode,
          [y \in Coords |-> [x \in Coords |-> IF x = 2 /\ y = 2 THEN "P" ELSE " "]],
          [i \in 1 .. DEFAULT_STAGE_COUNT |-> [targets |-> << >>]])

\* targets.findIndex: the place (from 1) of the first target on the cell, 0
\* for -1.
findIndex(targets, gridX, gridY) ==
  IF \E k \in 1 .. Len(targets) : targets[k] = Pt(gridX, gridY)
  THEN CHOOSE k \in 1 .. Len(targets) :
         /\ targets[k] = Pt(gridX, gridY)
         /\ \A j \in 1 .. (k - 1) : targets[j] # Pt(gridX, gridY)
  ELSE 0

\* targets.splice(k, 1)
splice(targets, k) == SubSeq(targets, 1, k - 1) \o SubSeq(targets, k + 1, Len(targets))

\* The base grid without its "P" cells.
WithoutPlayer(grid) ==
  [y \in Coords |-> [x \in Coords |-> IF grid[y][x] = "P" THEN " " ELSE grid[y][x]]]

\* A variant that writes the player without clearing the earlier one.
placeInBase_keepsPlayer(level, letter, gridX, gridY) ==
  [level EXCEPT !.baseGrid[gridY][gridX] = letter]

\* The last branch of placeObject: player, magnets and walls go into the
\* base grid, a player after every "P" cell was emptied.
placeInBase(level, letter, gridX, gridY) ==
  LET cleared == IF letter = "P" THEN WithoutPlayer(level.baseGrid) ELSE level.baseGrid
  IN [level EXCEPT !.baseGrid = [cleared EXCEPT ![gridY][gridX] = letter]]

\* placeObject on the editor state ed: nothing outside the grid, nothing
\* for the target tool in timeAttack and sprint; a target toggles in the
\* current stage; the eraser empties the base cell and removes the target
\* of the current stage on it.
placeObject(ed, gridX, gridY) ==
  LET level == ed.level
      letter == TOOL_TO_LETTER[ed.currentTool]
      hasStage == HasStage(level, ed.currentStageIndex)
      targets == StageAt(level, ed.currentStageIndex).targets
      existingIndex == findIndex(targets, gridX, gridY)
  IN IF ~isValidGridPos(gridX, gridY) THEN ed
     ELSE IF ed.currentTool = "target" /\ level.gameMode \in {"timeAttack", "sprint"} THEN ed
     ELSE IF letter = "T"
     THEN IF ~hasStage THEN ed
          ELSE [ed EXCEPT !.level.stages[ed.currentStageIndex + 1].targets =
                            IF existingIndex > 0 THEN splice(targets, existingIndex)
                            ELSE Append(targets, Pt(gridX, gridY))]
     ELSE IF letter = " "
     THEN LET erased == [level EXCEPT !.baseGrid[gridY][gridX] = " "]
          IN [ed EXCEPT !.level =
                IF hasStage /\ existingIndex > 0
                THEN [erased EXCEPT !.stages[ed.currentStageIndex + 1].targets =
                                      splice(targets, existingIndex)]
                ELSE erased]
     ELSE [ed EXCEPT !.level = placeInBase(level, letter, gridX, gridY)]

\* ------------------------------------------------------------------------
\* The validator of the editor, on the editor's currentLevel
\* ------------------------------------------------------------------------
\* findPlayerPosition of the editor: the first "P" of currentLevel.baseGrid
\* in row-major order, or null.
editorFindPlayerPosition(currentLevel) ==
  LET ps == CellsWith(currentLevel.baseGrid, "P")
  IN IF Len(ps) = 0 THEN NullPos ELSE ps[1]

\* The for loop over directions of the editor's two searches.
RECURSIVE editorExplore(_, _, _, _, _)
editorExplore(grid, current, queue, visited, k) ==
  IF k > Len(directions) THEN [queue |-> queue, visited |-> visited]
  ELSE LET newX == current.x + directions[k].dx
           newY == current.y + directions[k].dy
       IN IF /\ isValidGridPos(newX, newY)
             /\ <<newX, newY>> \notin visited
             /\ grid[newY][newX] # "W"
          THEN editorExplore(grid, current, Append(queue, Pt(newX, newY)),
                             visited \cup {<<newX, newY>>}, k + 1)
          ELSE editorExplore(grid, current, queue, visited, k + 1)

\* The while loop of the editor's isTargetReachable.
RECURSIVE editorReachLoop(_, _, _, _, _)
editorReachLoop(grid, queue, visited, targetX, targetY) ==
  IF Len(queue) = 0 THEN FALSE
  ELSE LET current == Head(queue)
           s == editorExplore(grid, current, Tail(queue), visited, 1)
       IN IF current.x = targetX /\ current.y = targetY THEN TRUE
          ELSE editorReachLoop(grid, s.queue, s.visited, targetX, targetY)

editorIsTargetReachable(currentLevel, targetX, targetY, playerPos) ==
  editorReachLoop(currentLevel.baseGrid, << playerPos >>,
                  {<<playerPos.x, playerPos.y>>}, targetX, targetY)

\* The while loop of the editor's findAllReachableEmptySquares.
RECURSIVE editorEmptiesLoop(_, _, _, _)
editorEmptiesLoop(grid, queue, visited, reachableEmpties) ==
  IF Len(queue) = 0 THEN reachableEmpties
  ELSE LET current == Head(queue)
           s == editorExplore(grid, current, Tail(queue), visited, 1)
       IN editorEmptiesLoop(grid, s.queue, s.visited,
                            IF grid[current.y][current.x] = " "
                            THEN Append(reachableEmpties, current)
                            ELSE reachableEmpties)

editorFindAllReachableEmptySquares(currentLevel, playerPos) ==
  editorEmptiesLoop(currentLevel.baseGrid, << playerPos >>,
                    {<<playerPos.x, playerPos.y>>}, << >>)

\* The loop over currentLevel.stages of the editor's validateLevel, from
\* stage stageIdx on, with its inner loop over stage.targets.
RECURSIVE editorValidateStages(_, _, _)
editorValidateStages(currentLevel, playerPos, stageIdx) ==
  IF stageIdx >= Len(currentLevel.stages) THEN Valid
  ELSE LET stage == StageAt(currentLevel, stageIdx)
           unreachable == { k \in 1 .. Len(stage.targets) :
                              ~editorIsTargetReachable(currentLevel, stage.targets[k].x,
                                                       stage.targets[k].y, playerPos) }
       IN IF Len(stage.targets) = 0
          THEN Invalid("Stage has no targets", stageIdx + 1)
          ELSE IF unreachable # {}
          THEN Invalid("Stage has unreachable target", stageIdx + 1)
          ELSE editorValidateStages(currentLevel, playerPos, stageIdx + 1)

\* The validator of the older editor: a player is all that timeAttack and
\* sprint levels need, and no magnet is asked for.
editorValidateLevel_playerOnly(currentLevel) ==
  LET playerPos == editorFindPlayerPosition(currentLevel)
  IN IF playerPos = NullPos THEN Invalid("No player placed", 0)
     ELSE IF currentLevel.gameMode \in {"timeAttack", "sprint"} THEN Valid
     ELSE editorValidateStages(currentLevel, playerPos, 0)

\* validateLevel of the editor.
editorValidateLevel(currentLevel) ==
  LET playerPos == editorFindPlayerPosition(currentLevel)
      hasRed == \E c \in AllCells : currentLevel.baseGrid[c[2]][c[1]] = "R"
      hasBlue == \E c \in AllCells : currentLevel.baseGrid[c[2]][c[1]] = "B"
      empties == { c \in AllCells : currentLevel.baseGrid[c[2]][c[1]] = " " }
  IN IF playerPos = NullPos THEN Invalid("No player placed", 0)
     ELSE IF ~hasRed THEN Invalid("At least one red magnet required", 0)
     ELSE IF ~hasBlue THEN Invalid("At least one blue magnet required", 0)
     ELSE IF currentLevel.gameMode \in {"timeAttack", "sprint"}
          THEN IF Len(editorFindAllReachableEmptySquares(currentLevel, playerPos))
                    # Cardinality(empties)
               THEN Invalid("Level can have unreachable target", 0)
               ELSE Valid
     ELSE editorValidateStages(currentLevel, playerPos, 0)

\* ------------------------------------------------------------------------
\* State
\* ------------------------------------------------------------------------
VARIABLES
  game,                    \* the module-level game state (see InitialGame)
  keys,                    \* keys.x, keys.z
  urlHash,                 \* the level in window.location.hash, or NullLevel
  storedLevel,             \* the level in sessionStorage, or NullLevel
  physicsAccumulatedTime,
  sinceFrame,              \* performance.now() - lastFrameTime
  pc,                      \* "boot", "idle" (between frames), "steps" and "collide" (in gameLoop)
  stepsLeft,               \* physics steps of the running frame still to run
  interpolationFactor,     \* numerator of the factor handed to drawPlayer, over PHYSICS_DT
  normLevel, normIndex,    \* arguments of a normalizeLevelData call
  normResult, normAfter,   \* its result, and the level object after it
  normPc,                  \* "call" before, "done" after, "off" when unused
  valLevel, valTarget,     \* arguments of a validator call
  valReach, valResult,     \* result of isTargetReachable, of validateLevel
  valPc,                   \* "reach" / "validate" before, "reached" / "validated" after
  server,                  \* the publish endpoint: request body, posts, last response
  phys,                    \* two runs of the physics step side by side
  editor,                  \* the level editor: currentLevel, currentTool, currentStageIndex
  tracing,                 \* whether the frames are recorded in trace
  trace                    \* what the last frame and visibility event did (see NoTrace)

vars == <<game, keys, urlHash, storedLevel, physicsAccumulatedTime, sinceFrame,
          pc, stepsLeft, interpolationFactor,
          normLevel, normIndex, normResult, normAfter, normPc,
          valLevel, valTarget, valReach, valResult, valPc, server, phys, editor, tracing, trace>>

gameVars == <<game, keys, urlHash, storedLevel, physicsAccumulatedTime, sinceFrame,
              pc, stepsLeft, interpolationFactor>>

normVars == <<normLevel, normIndex, normResult, normAfter, normPc>>

valVars == <<valLevel, valTarget, valReach, valResult, valPc>>

\* The variables of the calls checked on their own, outside the game.
callVars == <<normVars, valVars, server, phys, editor>>

obsVars == <<tracing, trace>>

\* The record of the frames: a history of the run, not state of the program.
\*   frames   gameLoop calls so far
\*   carried  physicsAccumulatedTime as the last frame found it
\*   elapsed  currentTime - lastFrameTime of the last frame
\*   backlog  physicsAccumulatedTime of the last frame after the ceiling,
\*            before the while loop
\*   steps    physics steps (applyAttraction, updatePlayer, checkCollisions)
\*            started since the last frame began
\*   over     isGameOver as the last frame tested it
\*   ticked   whether updateTimer of the last frame counted a second
\*   resumed  whether the last frame was the first one after a visibility
\*            event
\*   pending  whether a visibility event happened since the last frame
\*   hidden   the time that had gone by since the last frame when the last
\*            visibility event reset the clocks
\*   sinceVis the time gone by since the last visibility event
NoTrace ==
  [frames |-> 0, carried |-> 0, elapsed |-> 0, backlog |-> 0, steps |-> 0, over |-> FALSE,
   ticked |-> FALSE, resumed |-> FALSE, pending |-> FALSE,
   hidden |-> 0, sinceVis |-> 0]

Record(t) == trace' = IF tracing THEN t ELSE trace

\* ------------------------------------------------------------------------
\* Inputs of the game specification
\* ------------------------------------------------------------------------
SprintLevel == MkLevel("sprint", WallGrid, << >>)

StagedLevel ==
  MkLevel("staged", WallGrid,
          << [targets |-> << Pt(1, 0) >>],
             [targets |-> << Pt(1, 0), Pt(5, 1), Pt(6, 2) >>] >>)

\* A staged level without stages: normalizeLevelData returns null for it.
EmptyStagedLevel == MkLevel("staged", WallGrid, << >>)

\* A staged level of three stages, one target each.
ThreeStageLevel ==
  MkLevel("staged", WallGrid,
          << [targets |-> << Pt(1, 0) >>], [targets |-> << Pt(5, 1) >>],
             [targets |-> << Pt(1, 0) >>] >>)

\* <<URL hash, session store>> at page load.
Payloads ==
  { <<NullLevel, NullLevel>>,
    <<NullLevel, ThreeStageLevel>>,
    <<NullLevel, SprintLevel>>,
    <<StagedLevel, NullLevel>>,
    <<StagedLevel, EmptyStagedLevel>>,
    <<EmptyStagedLevel, SprintLevel>> }

\* Outcomes of the random draws of one spawnRandomTargets call.
SpawnDraws ==
  { [rows |-> {}, cells |-> << Pt(1, 0), Pt(1, 0), Pt(1, 0) >>],
    [rows |-> {0, 1}, cells |-> << Pt(0, 0), Pt(1, 0), Pt(1, 0) >>] }

\* Where a physics step may leave the player: centred on one of these cells,
\* at rest or moving.
PlayerCells == { Pt(0, 0), Pt(1, 0), Pt(5, 1) }

PlayerMoves ==
  { [x |-> PlayerStartPixel(c.x), y |-> PlayerStartPixel(c.y), vx |-> v, vy |-> 0] :
      c \in PlayerCells, v \in {0, SCALE} }

\* Clock advances between two events: <<performance.now(), Date.now()>>.
\* The two clocks are read separately by the source and advance separately
\* here.
GameTicks == { <<PHYSICS_DT, 0>>, <<3 * PHYSICS_DT, 0>>, <<0, TIMER_PERIOD>> }

MaxScore == 40
MaxSeconds == 2
MaxFrames == 3
MaxPosts == 3
MaxPhysSteps == 3
MaxPlacements == 2
MaxFrameBacklog == 3 * PHYSICS_DT
MaxTimerBacklog == TIMER_PERIOD

\* ------------------------------------------------------------------------
\* Actions of the game
\* ------------------------------------------------------------------------
NormOff ==
  /\ normLevel = NullLevel /\ normIndex = 0
  /\ normResult = NullGrid /\ normAfter = NullLevel /\ normPc = "off"

NoSearch == [found |-> FALSE, polls |-> 0]

\* A response of the publish endpoint: c.json({success, postId?, error?},
\* status); postId 0 and NullError stand for an absent field.
Response(status, success, postId, error) ==
  [status |-> status, success |-> success, postId |-> postId, error |-> error]

NoResponse == Response(0, FALSE, 0, NullError)

\* A request body: unparsable ("garbage"), without level ("noLevel"), with a
\* level that has no baseGrid ("broken"), or with a level ("level").
Body(shape, level) == [shape |-> shape, level |-> level]

ServerOff == [pc |-> "off", body |-> Body("noLevel", NullLevel), posts |-> << >>,
              response |-> NoResponse]

\* The two runs: a and b are game states given the same held keys step
\* after step, held the keys of the last step, n the number of steps, last
\* the kind of the last event.
PhysOff == [a |-> InitialGame, b |-> InitialGame,
            held |-> [x |-> FALSE, z |-> FALSE], n |-> 0, last |-> "off"]

\* The editor before it is opened.
EditorOff == [level |-> NullLevel, currentTool |-> "player", currentStageIndex |-> 0,
              n |-> 0, last |-> "off"]

ValOff ==
  /\ valLevel = NullLevel /\ valTarget = NullPos
  /\ valReach = NoSearch /\ valResult = Valid /\ valPc = "off"
  /\ server = ServerOff
  /\ phys = PhysOff
  /\ editor = EditorOff

InitGame ==
  /\ game = InitialGame
  /\ keys = [x |-> FALSE, z |-> FALSE]
  /\ \E p \in Payloads : urlHash = p[1] /\ storedLevel = p[2]
  /\ physicsAccumulatedTime = 0
  /\ sinceFrame = 0
  /\ pc = "boot"
  /\ stepsLeft = 0
  /\ interpolationFactor = 0
  /\ NormOff
  /\ ValOff
  /\ tracing = FALSE
  /\ trace = NoTrace

\* initializeGame: load the editor level or the default level, then start
\* the loop.
InitializeGame ==
  /\ pc = "boot"
  /\ \E rnd \in SpawnDraws :
       LET r == LoadEditorOrDefault(game, urlHash, storedLevel, rnd)
       IN /\ game' = r.g
          /\ urlHash' = r.hash
  /\ pc' = "idle"
  /\ UNCHANGED <<keys, storedLevel, physicsAccumulatedTime, sinceFrame, stepsLeft,
                 interpolationFactor, callVars, obsVars>>

\* Time passes between two events (also while initializeGame awaits the
\* sounds, before the first load).
Tick(dp, dw) ==
  /\ pc \in {"boot", "idle"}
  /\ physicsAccumulatedTime + sinceFrame + dp <= MaxFrameBacklog
  /\ game.sinceTimerUpdate + dw <= MaxTimerBacklog
  /\ dw > 0 => game.sprintTimeElapsed < MaxSeconds
  /\ sinceFrame' = sinceFrame + dp
  /\ game' = [game EXCEPT !.sinceTimerUpdate = @ + dw]
  /\ UNCHANGED <<keys, urlHash, storedLevel, physicsAccumulatedTime, pc, stepsLeft,
                 interpolationFactor, callVars, obsVars>>

GameTick == \E t \in GameTicks : Tick(t[1], t[2])

\* keydown / keyup of x or z (or the arcade buttons).  The mode state machine
\* does not read the keys, so NextGame leaves them released.
KeyChange ==
  /\ pc = "idle"
  /\ \E k \in {"x", "z"} : keys' = [keys EXCEPT ![k] = ~@]
  /\ UNCHANGED <<game, urlHash, storedLevel, physicsAccumulatedTime, sinceFrame, pc,
                 stepsLeft, interpolationFactor, callVars, obsVars>>

\* The restart handlers without their isGameOver test.
RestartRequest_unguarded ==
  /\ pc = "idle"
  /\ \E rnd \in SpawnDraws :
       LET r == restartGame(game, urlHash, storedLevel, rnd)
       IN /\ game' = r.g
          /\ urlHash' = r.hash
  /\ UNCHANGED <<keys, storedLevel, physicsAccumulatedTime, sinceFrame, pc, stepsLeft,
                 interpolationFactor, callVars, obsVars>>

\* The space key or the game-over button: restartGame when the game is over,
\* nothing otherwise.
RestartRequest ==
  /\ pc = "idle"
  /\ IF game.isGameOver
     THEN \E rnd \in SpawnDraws :
            LET r == restartGame(game, urlHash, storedLevel, rnd)
            IN /\ game' = r.g
               /\ urlHash' = r.hash
     ELSE UNCHANGED <<game, urlHash>>
  /\ UNCHANGED <<keys, storedLevel, physicsAccumulatedTime, sinceFrame, pc, stepsLeft,
                 interpolationFactor, callVars, obsVars>>

\* A visibility handler that stops the sounds but leaves the clocks alone.
VisibilityChange_keepsClocks ==
  /\ pc = "idle"
  /\ Record([trace EXCEPT !.pending = TRUE,
                          !.hidden = sinceFrame,
                          !.sinceVis = 0])
  /\ UNCHANGED <<game, keys, urlHash, storedLevel, physicsAccumulatedTime, sinceFrame, pc,
                 stepsLeft, interpolationFactor, callVars, tracing>>

\* visibilitychange, hidden or shown: both branches reset the clocks.
VisibilityChange ==
  /\ pc = "idle"
  /\ sinceFrame' = 0
  /\ physicsAccumulatedTime' = 0
  /\ game' = [game EXCEPT !.sinceTimerUpdate = 0]
  /\ Record([trace EXCEPT !.pending = TRUE,
                          !.hidden = sinceFrame,
                          !.sinceVis = 0])
  /\ UNCHANGED <<keys, urlHash, storedLevel, pc, stepsLeft, interpolationFactor, callVars,
                 tracing>>

\* gameLoop up to the physics loop: accumulate, count the steps, and either
\* draw the game-over screen or run updateTimer.
GameLoopBegin ==
  /\ pc = "idle"
  /\ game.currentLevelData.gameMode = "timeAttack" => game.score < MaxScore
  /\ tracing => trace.frames < MaxFrames
  /\ Record([trace EXCEPT !.frames = @ + 1,
                          !.carried = physicsAccumulatedTime,
                          !.elapsed = sinceFrame,
                          !.backlog = Backlog(physicsAccumulatedTime, sinceFrame),
                          !.steps = 0,
                          !.over = game.isGameOver,
                          !.ticked = updateTimer(game) # game,
                          !.resumed = trace.pending,
                          !.pending = FALSE])
  /\ LET a == Accumulate(physicsAccumulatedTime, sinceFrame)
     IN /\ physicsAccumulatedTime' = a.acc
        /\ sinceFrame' = 0
        /\ IF game.isGameOver
           THEN /\ interpolationFactor' = 0
                /\ UNCHANGED <<game, pc, stepsLeft>>
           ELSE /\ game' = updateTimer(game)
                /\ pc' = "steps"
                /\ stepsLeft' = a.steps
                /\ UNCHANGED interpolationFactor
  /\ UNCHANGED <<keys, urlHash, storedLevel, callVars, tracing>>

\* One iteration of the physics loop, first half: applyAttraction and
\* updatePlayer.
UpdatePlayerStep ==
  /\ pc = "steps"
  /\ stepsLeft > 0
  /\ \E move \in PlayerMoves : game' = updatePlayer(game, keys, move)
  /\ pc' = "collide"
  /\ Record([trace EXCEPT !.steps = @ + 1])
  /\ UNCHANGED <<keys, urlHash, storedLevel, physicsAccumulatedTime, sinceFrame, stepsLeft,
                 interpolationFactor, callVars, tracing>>

\* One iteration of the physics loop, second half: checkCollisions.
CheckCollisionsStep ==
  /\ pc = "collide"
  /\ \E rnd \in SpawnDraws : game' = checkCollisions(game, rnd)
  /\ stepsLeft' = stepsLeft - 1
  /\ pc' = "steps"
  /\ UNCHANGED <<keys, urlHash, storedLevel, physicsAccumulatedTime, sinceFrame,
                 interpolationFactor, callVars, obsVars>>

\* The end of gameLoop: the interpolation factor is computed and drawn with.
GameLoopEnd ==
  /\ pc = "steps"
  /\ stepsLeft = 0
  /\ interpolationFactor' = physicsAccumulatedTime
  /\ pc' = "idle"
  /\ UNCHANGED <<game, keys, urlHash, storedLevel, physicsAccumulatedTime, sinceFrame,
                 stepsLeft, callVars, obsVars>>

NextGame ==
  \/ InitializeGame
  \/ GameTick
  \/ RestartRequest
  \/ VisibilityChange
  \/ GameLoopBegin
  \/ UpdatePlayerStep
  \/ CheckCollisionsStep
  \/ GameLoopEnd

SpecGame == InitGame /\ [][NextGame]_vars

\* ------------------------------------------------------------------------
\* The game loop under irregular frame intervals and visibility events:
\* both clocks advance together, and the frames are recorded
\* ------------------------------------------------------------------------
\* A staged level of one stage: collecting its target ends the game.
OneStageLevel == MkLevel("staged", WallGrid, << [targets |-> << Pt(1, 0) >>] >>)

\* A stall of a little more than three seconds, longer than the backlog
\* ceiling.
Stall == 3 * TIMER_PERIOD + 20

\* Intervals between two events: a fraction of a step, three steps, and a
\* stall.
LoopTicks == { 20, 3 * PHYSICS_DT, Stall }

InitLoop ==
  /\ game = InitialGame
  /\ keys = [x |-> FALSE, z |-> FALSE]
  /\ urlHash = NullLevel
  /\ storedLevel = OneStageLevel
  /\ physicsAccumulatedTime = 0
  /\ sinceFrame = 0
  /\ pc = "boot"
  /\ stepsLeft = 0
  /\ interpolationFactor = 0
  /\ NormOff
  /\ ValOff
  /\ tracing = TRUE
  /\ trace = NoTrace

\* Time passes between two events, the same on performance.now() and
\* Date.now(); one interval is drawn per event.
Elapse(d) ==
  /\ pc \in {"boot", "idle"}
  /\ sinceFrame = 0
  /\ sinceFrame' = d
  /\ game' = [game EXCEPT !.sinceTimerUpdate = @ + d]
  /\ Record([trace EXCEPT !.sinceVis = IF trace.pending THEN @ + d ELSE @])
  /\ UNCHANGED <<keys, urlHash, storedLevel, physicsAccumulatedTime, pc, stepsLeft,
                 interpolationFactor, callVars, tracing>>

LoopTick == \E d \in LoopTicks : Elapse(d)

NextLoop ==
  \/ InitializeGame
  \/ LoopTick
  \/ RestartRequest
  \/ VisibilityChange
  \/ GameLoopBegin
  \/ UpdatePlayerStep
  \/ CheckCollisionsStep
  \/ GameLoopEnd

SpecLoop == InitLoop /\ [][NextLoop]_vars

\* ------------------------------------------------------------------------
\* The normalizer as a pure function: inputs drawn at Init, one call
\* ------------------------------------------------------------------------
\* Stage targets used as inputs: an empty cell, the cell of the red magnet,
\* and two out-of-range coordinates.
NormPoints == { Pt(1, 1), Pt(5, 0), Pt(-1, 2), Pt(2, 6) }

SeqsUpTo(S, n) == UNION { [1 .. m -> S] : m \in 0 .. n }

RECURSIVE TargetCount(_, _)
TargetCount(stgs, k) ==
  IF k > Len(stgs) THEN 0 ELSE Len(stgs[k].targets) + TargetCount(stgs, k + 1)

\* Stage lists of at most MaxStages stages holding at most MaxTargets targets
\* in all.
NormStageLists ==
  { stgs \in SeqsUpTo({ [targets |-> l] : l \in SeqsUpTo(NormPoints, MaxTargets) }, MaxStages) :
      TargetCount(stgs, 1) <= MaxTargets }

NormGrids == { defaultLevelData.baseGrid, WallGrid, FlatGrid }

InitNorm ==
  /\ game = InitialGame
  /\ keys = [x |-> FALSE, z |-> FALSE]
  /\ urlHash = NullLevel /\ storedLevel = NullLevel
  /\ physicsAccumulatedTime = 0 /\ sinceFrame = 0
  /\ pc = "off" /\ stepsLeft = 0 /\ interpolationFactor = 0
  /\ normLevel \in { MkLevel(m, gr, st) : m \in GameModes, gr \in NormGrids, st \in NormStageLists }
  /\ normIndex \in -1 .. MaxStages
  /\ normResult = NullGrid
  /\ normAfter = normLevel
  /\ normPc = "call"
  /\ ValOff
  /\ tracing = FALSE
  /\ trace = NoTrace

\* One call normalizeLevelData(normLevel, normIndex).
Normalize ==
  /\ normPc = "call"
  /\ normResult' = normalizeLevelData(normLevel, normIndex)
  /\ normAfter' = LevelAfterNormalize(normLevel, normIndex)
  /\ normPc' = "done"
  /\ UNCHANGED <<normLevel, normIndex, gameVars, valVars, server, phys, editor, obsVars>>

NextNorm == Normalize

SpecNorm == InitNorm /\ [][NextNorm]_vars

\* ------------------------------------------------------------------------
\* The validator as a pure function: inputs drawn at Init, one call
\* ------------------------------------------------------------------------
\* Cells that may hold a wall: three that close in the corner of the start
\* cell (0,0) and its two neighbours, three around the far corner (5,5).
WallSpots == { <<2, 0>>, <<1, 1>>, <<0, 2>>, <<4, 5>>, <<5, 4>>, <<4, 4>> }

\* Where the other codes go: the full layout has the player at (0,0) between
\* the red magnet (1,0) and the blue magnet (0,1), so that every path from
\* the start goes over a magnet.
Layout(p, r, b, t) == [P |-> p, R |-> r, B |-> b, T |-> t]

FullLayout == Layout({<<0, 0>>}, {<<1, 0>>}, {<<0, 1>>}, {})

Layouts ==
  { FullLayout,
    Layout({}, {<<1, 0>>}, {<<0, 1>>}, {}),
    Layout({<<0, 0>>}, {}, {<<0, 1>>}, {}),
    Layout({<<0, 0>>}, {<<1, 0>>}, {}, {}),
    Layout({}, {}, {}, {}),
    Layout({<<0, 0>>, <<5, 5>>}, {<<1, 0>>}, {<<0, 1>>}, {}),
    Layout({<<0, 0>>}, {<<1, 0>>}, {<<0, 1>>}, {<<5, 5>>}) }

BuildGrid(layout, wallCells) ==
  [y \in Coords |-> [x \in Coords |->
     IF <<x, y>> \in wallCells THEN "W"
     ELSE IF <<x, y>> \in layout.P THEN "P"
     ELSE IF <<x, y>> \in layout.R THEN "R"
     ELSE IF <<x, y>> \in layout.B THEN "B"
     ELSE IF <<x, y>> \in layout.T THEN "T"
     ELSE " "]]

ValGrids == { BuildGrid(l, w) : l \in Layouts, w \in SUBSET WallSpots }

\* Target lists of a stage: none, a cell in the open, that cell and the far
\* corner, the start cell, a cell outside the grid.
ValTargetLists ==
  { << >>, << Pt(3, 3) >>, << Pt(3, 3), Pt(5, 5) >>, << Pt(0, 0) >>, << Pt(6, 2) >> }

ValStageLists == SeqsUpTo({ [targets |-> l] : l \in ValTargetLists }, MaxStages)

\* Stage lists given to timeAttack and sprint levels, which do not use them.
UnusedStageLists ==
  { << >>, << [targets |-> << >>] >>, << [targets |-> << Pt(5, 5) >>] >> }

ValLevels ==
  { MkLevel(m, gr, st) : m \in {"timeAttack", "sprint"}, gr \in ValGrids, st \in UnusedStageLists }
  \cup { MkLevel("staged", gr, st) : gr \in ValGrids, st \in ValStageLists }

\* Targets asked of isTargetReachable: every cell, and four points outside.
ReachPoints ==
  { Pt(c[1], c[2]) : c \in AllCells } \cup { Pt(-1, 0), Pt(6, 2), Pt(0, 6), Pt(2, -1) }

ReachLevels ==
  { MkLevel("staged", BuildGrid(l, w), << >>) :
      l \in { m \in Layouts : m.P # {} /\ m.R # {} /\ m.B # {} }, w \in SUBSET WallSpots }

\* The cells a wall is added to.
WallPoints == { Pt(c[1], c[2]) : c \in AllCells }

\* The level with the cell c of its base grid turned into a wall.
WithWall(level, c) == [level EXCEPT !.baseGrid[c.y][c.x] = "W"]

\* The positions in a list returned by a search.
PosSet(list) == { <<list[k].x, list[k].y>> : k \in 1 .. Len(list) }

InitValid ==
  /\ game = InitialGame
  /\ keys = [x |-> FALSE, z |-> FALSE]
  /\ urlHash = NullLevel /\ storedLevel = NullLevel
  /\ physicsAccumulatedTime = 0 /\ sinceFrame = 0
  /\ pc = "off" /\ stepsLeft = 0 /\ interpolationFactor = 0
  /\ NormOff
  /\ tracing = FALSE
  /\ trace = NoTrace
  /\ valReach = NoSearch
  /\ valResult = Valid
  /\ server = ServerOff
  /\ phys = PhysOff
  /\ editor = EditorOff
  /\ \/ valPc = "reach" /\ valLevel \in ReachLevels /\ valTarget \in ReachPoints
     \/ valPc = "validate" /\ valLevel \in ValLevels /\ valTarget = NullPos
     \/ valPc = "wall" /\ valLevel \in ReachLevels /\ valTarget \in WallPoints

\* One call isTargetReachable(valTarget.x, valTarget.y, playerPos) on valLevel.
Reach ==
  /\ valPc = "reach"
  /\ valReach' = TargetSearch(valLevel, valTarget.x, valTarget.y, findPlayerPosition(valLevel))
  /\ valPc' = "reached"
  /\ UNCHANGED <<valLevel, valTarget, valResult, gameVars, normVars, server, phys, editor, obsVars>>

\* One call validateLevel(valLevel).
Validate ==
  /\ valPc = "validate"
  /\ valResult' = validateLevel(valLevel)
  /\ valPc' = "validated"
  /\ UNCHANGED <<valLevel, valTarget, valReach, gameVars, normVars, server, phys, editor, obsVars>>

\* findAllReachableEmptySquares on valLevel and on valLevel with a wall
\* added at valTarget, from the same player position.
AddWall ==
  /\ valPc = "wall"
  /\ valReach' =
       [before |-> PosSet(findAllReachableEmptySquares(valLevel, findPlayerPosition(valLevel))),
        after |-> PosSet(findAllReachableEmptySquares(WithWall(valLevel, valTarget),
                                                      findPlayerPosition(valLevel)))]
  /\ valPc' = "walled"
  /\ UNCHANGED <<valLevel, valTarget, valResult, gameVars, normVars, server, phys, editor, obsVars>>

\* One call validateLevel() of the editor with valLevel as its currentLevel,
\* on the level the server's validator has judged.
EditorValidate ==
  /\ valPc = "validated"
  /\ valReach' = editorValidateLevel(valLevel)
  /\ valPc' = "editorValidated"
  /\ UNCHANGED <<valLevel, valTarget, valResult, gameVars, normVars, server, phys, editor, obsVars>>

NextValid == Reach \/ Validate \/ AddWall

SpecValid == InitValid /\ [][NextValid]_vars

\* The two validators on the same levels: the server's, then the editor's.
InitValidators ==
  /\ game = InitialGame
  /\ keys = [x |-> FALSE, z |-> FALSE]
  /\ urlHash = NullLevel /\ storedLevel = NullLevel
  /\ physicsAccumulatedTime = 0 /\ sinceFrame = 0
  /\ pc = "off" /\ stepsLeft = 0 /\ interpolationFactor = 0
  /\ NormOff
  /\ tracing = FALSE
  /\ trace = NoTrace
  /\ valReach = NoSearch
  /\ valResult = Valid
  /\ server = ServerOff
  /\ phys = PhysOff
  /\ editor = EditorOff
  /\ valPc = "validate" /\ valLevel \in ValLevels /\ valTarget = NullPos

NextValidators == Validate \/ EditorValidate

SpecValidators == InitValidators /\ [][NextValidators]_vars

\* ------------------------------------------------------------------------
\* The publish endpoint of the server
\* ------------------------------------------------------------------------
\* A staged level without player.
NoPlayerLevel ==
  MkLevel("staged", BuildGrid(Layout({}, {<<1, 0>>}, {<<0, 1>>}, {}), {}),
          << [targets |-> << Pt(3, 3) >>] >>)

\* A sprint level with a walled-off empty corner.
PocketLevel == MkLevel("sprint", BuildGrid(FullLayout, {<<4, 5>>, <<5, 4>>}), << >>)

\* Levels sent to the endpoint: three that validate, three that do not.
PublishLevels ==
  { defaultLevelData, OneStageLevel, SprintLevel, StagedLevel, NoPlayerLevel, PocketLevel }

PublishBodies ==
  { Body("garbage", NullLevel), Body("noLevel", NullLevel), Body("broken", NullLevel) }
  \cup { Body("level", l) : l \in PublishLevels }

InitPublish ==
  /\ game = InitialGame
  /\ keys = [x |-> FALSE, z |-> FALSE]
  /\ urlHash = NullLevel /\ storedLevel = NullLevel
  /\ physicsAccumulatedTime = 0 /\ sinceFrame = 0
  /\ pc = "off" /\ stepsLeft = 0 /\ interpolationFactor = 0
  /\ NormOff
  /\ valLevel = NullLevel /\ valTarget = NullPos
  /\ valReach = NoSearch /\ valResult = Valid /\ valPc = "off"
  /\ server = [ServerOff EXCEPT !.pc = "idle"]
  /\ phys = PhysOff
  /\ editor = EditorOff
  /\ tracing = FALSE
  /\ trace = NoTrace

\* A POST /api/publish arrives.
ReceivePublish ==
  /\ server.pc = "idle"
  /\ Len(server.posts) < MaxPosts
  /\ \E b \in PublishBodies :
       server' = [server EXCEPT !.pc = "handle", !.body = b, !.response = NoResponse]
  /\ UNCHANGED <<gameVars, normVars, valVars, phys, editor, obsVars>>

\* publishLevel: the post is submitted, or reddit.submitCustomPost throws.
publishLevel(posts, level, redditUp) ==
  IF redditUp
  THEN [posts |-> Append(posts, level), success |-> TRUE, postId |-> Len(posts) + 1]
  ELSE [posts |-> posts, success |-> FALSE, postId |-> 0]

\* The response and posts of a handler that publishes before it validates.
publishResponse_publishFirst(srv, redditUp) ==
  LET body == srv.body
      result == publishLevel(srv.posts, body.level, redditUp)
  IN IF body.shape \in {"garbage", "broken"}
     THEN [posts |-> srv.posts,
           response |-> Response(500, FALSE, 0, [text |-> "Internal server error", stage |-> 0])]
     ELSE IF body.shape = "noLevel"
     THEN [posts |-> srv.posts,
           response |-> Response(400, FALSE, 0, [text |-> "Level data is required", stage |-> 0])]
     ELSE IF ~validateLevel(body.level).valid
     THEN [posts |-> result.posts,
           response |-> Response(400, FALSE, 0, validateLevel(body.level).error)]
     ELSE IF result.success
     THEN [posts |-> result.posts, response |-> Response(200, TRUE, result.postId, NullError)]
     ELSE [posts |-> result.posts,
           response |-> Response(500, FALSE, 0, [text |-> "Failed to publish level", stage |-> 0])]

\* The handler of POST /api/publish: c.req.json() or validateLevel throwing
\* lands in the catch (500); no level and an invalid level are answered 400
\* before publishLevel is called.
publishResponse(srv, redditUp) ==
  LET body == srv.body
      result == publishLevel(srv.posts, body.level, redditUp)
  IN IF body.shape \in {"garbage", "broken"}
     THEN [posts |-> srv.posts,
           response |-> Response(500, FALSE, 0, [text |-> "Internal server error", stage |-> 0])]
     ELSE IF body.shape = "noLevel"
     THEN [posts |-> srv.posts,
           response |-> Response(400, FALSE, 0, [text |-> "Level data is required", stage |-> 0])]
     ELSE IF ~validateLevel(body.level).valid
     THEN [posts |-> srv.posts,
           response |-> Response(400, FALSE, 0, validateLevel(body.level).error)]
     ELSE IF result.success
     THEN [posts |-> result.posts, response |-> Response(200, TRUE, result.postId, NullError)]
     ELSE [posts |-> result.posts,
           response |-> Response(500, FALSE, 0, [text |-> "Failed to publish level", stage |-> 0])]

HandlePublish ==
  /\ server.pc = "handle"
  /\ \E redditUp \in BOOLEAN :
       LET r == publishResponse(server, redditUp)
       IN server' = [server EXCEPT !.pc = "idle", !.posts = r.posts, !.response = r.response]
  /\ UNCHANGED <<gameVars, normVars, valVars, phys, editor, obsVars>>

NextPublish == ReceivePublish \/ HandlePublish

SpecPublish == InitPublish /\ [][NextPublish]_vars

\* ------------------------------------------------------------------------
\* A validated level loaded by the game: validateLevel, then loadLevel of
\* one of its stages
\* ------------------------------------------------------------------------
\* Wall sets: none, the far corner (5,5) walled off, the start cell walled in.
AcceptWalls == { {}, {<<4, 5>>, <<5, 4>>}, {<<2, 0>>, <<1, 1>>, <<0, 2>>} }

AcceptGrids == { BuildGrid(l, w) : l \in Layouts, w \in AcceptWalls }

\* The stage lists of the validator's inputs, and two stages with a target
\* on the cell of the red magnet (1,0).
AcceptStageLists ==
  ValStageLists \cup { << [targets |-> << Pt(3, 3) >>], [targets |-> << Pt(1, 0), Pt(3, 3) >>] >> }

AcceptLevels ==
  { MkLevel(m, gr, << >>) : m \in {"timeAttack", "sprint"}, gr \in AcceptGrids }
  \cup { MkLevel("staged", gr, st) : gr \in AcceptGrids, st \in AcceptStageLists }

\* Outcomes of the random draws of spawnRandomTargets: rows of the edge
\* column and the three cells of the second loop (gridX below 4).
AcceptDraws ==
  { [rows |-> {}, cells |-> << Pt(0, 0), Pt(3, 3), Pt(1, 0) >>],
    [rows |-> {0, 5}, cells |-> << Pt(3, 5), Pt(0, 1), Pt(2, 2) >>] }

\* The stage indices the game loads: 0 at first, then each next stage.
StageIndices(level) ==
  IF level.gameMode = "staged" THEN 0 .. (Len(level.stages) - 1) ELSE {0}

InitAccept ==
  /\ game = InitialGame
  /\ keys = [x |-> FALSE, z |-> FALSE]
  /\ urlHash = NullLevel /\ storedLevel = NullLevel
  /\ physicsAccumulatedTime = 0 /\ sinceFrame = 0
  /\ pc = "off" /\ stepsLeft = 0 /\ interpolationFactor = 0
  /\ NormOff
  /\ tracing = FALSE
  /\ trace = NoTrace
  /\ valReach = NoSearch
  /\ valResult = Valid
  /\ server = ServerOff
  /\ phys = PhysOff
  /\ editor = EditorOff
  /\ valPc = "validate" /\ valLevel \in AcceptLevels /\ valTarget = NullPos

\* The game loads a stage of the level that validateLevel accepted: stage 0
\* with the state reset, a later stage without.
LoadAccepted ==
  /\ valPc = "validated"
  /\ valResult.valid
  /\ \E i \in StageIndices(valLevel), rnd \in AcceptDraws :
       game' = loadLevel(game, valLevel, i, i = 0, rnd)
  /\ valPc' = "loaded"
  /\ UNCHANGED <<keys, urlHash, storedLevel, physicsAccumulatedTime, sinceFrame, pc,
                 stepsLeft, interpolationFactor, normVars, valLevel, valTarget,
                 valReach, valResult, server, phys, editor, obsVars>>

NextAccept == Validate \/ LoadAccepted

SpecAccept == InitAccept /\ [][NextAccept]_vars

\* ------------------------------------------------------------------------
\* The physics step on its own: two runs fed the same keys
\* ------------------------------------------------------------------------
\* Two red magnets at the same distance on either side of the start cell
\* (2,0), a blue one, two walls side by side, a wall on the left edge; two
\* stages.
PhysLevel ==
  MkLevel("staged",
          GridOf(<< <<" ", "R", "P", "R", " ", " ">>,
                    <<" ", " ", " ", " ", " ", " ">>,
                    <<" ", " ", " ", " ", " ", "B">>,
                    <<" ", "W", "W", " ", " ", " ">>,
                    <<"W", " ", " ", " ", " ", " ">>,
                    <<" ", " ", " ", " ", " ", " ">> >>),
          << [targets |-> << Pt(3, 1) >>], [targets |-> << Pt(4, 4) >>] >>)

\* Where and how fast the player is when the runs start: at rest on the
\* start cell and on a magnet's cell, and moving towards a wall from the
\* cell next to it.
PhysStarts ==
  { [cell |-> Pt(2, 0), vx |-> 0, vy |-> 0],
    [cell |-> Pt(3, 0), vx |-> 0, vy |-> 0],
    [cell |-> Pt(4, 1), vx |-> 0, vy |-> 0],
    [cell |-> Pt(0, 2), vx |-> 16 * SCALE, vy |-> 16 * SCALE],
    [cell |-> Pt(1, 2), vx |-> 16 * SCALE, vy |-> 24 * SCALE],
    [cell |-> Pt(1, 4), vx |-> 0 - 32 * SCALE, vy |-> 0] }

KeyStates == [x : BOOLEAN, z : BOOLEAN]

\* The state the runs start from: the level loaded, the player put at a
\* start.
PhysStart(st) ==
  LET g == loadLevel(InitialGame, PhysLevel, 0, TRUE, [rows |-> {}, cells |-> << >>])
  IN [g EXCEPT !.player.x = PlayerStartPixel(st.cell.x),
               !.player.y = PlayerStartPixel(st.cell.y),
               !.player.vx = st.vx,
               !.player.vy = st.vy]

\* The same player, magnets and walls in a game that differs in the rest:
\* score, timer, targets, game over.
OtherGame(g) ==
  [g EXCEPT !.score = 30, !.sprintTimeElapsed = 7, !.isGameOver = TRUE, !.targets = << >>]

InitPhys ==
  /\ game = InitialGame
  /\ keys = [x |-> FALSE, z |-> FALSE]
  /\ urlHash = NullLevel /\ storedLevel = NullLevel
  /\ physicsAccumulatedTime = 0 /\ sinceFrame = 0
  /\ pc = "off" /\ stepsLeft = 0 /\ interpolationFactor = 0
  /\ NormOff
  /\ valLevel = NullLevel /\ valTarget = NullPos
  /\ valReach = NoSearch /\ valResult = Valid /\ valPc = "off"
  /\ server = ServerOff
  /\ editor = EditorOff
  /\ tracing = FALSE
  /\ trace = NoTrace
  /\ \E st \in PhysStarts, other \in BOOLEAN :
       phys = [PhysOff EXCEPT !.a = PhysStart(st),
                              !.b = IF other THEN OtherGame(PhysStart(st)) ELSE PhysStart(st),
                              !.last = "start"]

\* One physics step of both runs with the same held keys.
PhysStep ==
  /\ phys.n < MaxPhysSteps
  /\ \E k \in KeyStates :
       phys' = [phys EXCEPT !.a = PhysicsStep(phys.a, k),
                            !.b = PhysicsStep(phys.b, k),
                            !.held = k, !.n = @ + 1, !.last = "step"]
  /\ UNCHANGED <<gameVars, normVars, valVars, server, editor, obsVars>>

\* loadLevel in both runs: stage 0 afresh, or the advance to stage 1.
PhysLoad ==
  /\ phys.n < MaxPhysSteps
  /\ \E i \in {0, 1} :
       phys' = [phys EXCEPT
                  !.a = loadLevel(phys.a, PhysLevel, i, i = 0, [rows |-> {}, cells |-> << >>]),
                  !.b = loadLevel(phys.b, PhysLevel, i, i = 0, [rows |-> {}, cells |-> << >>]),
                  !.n = @ + 1, !.last = "load"]
  /\ UNCHANGED <<gameVars, normVars, valVars, server, editor, obsVars>>

NextPhys == PhysStep \/ PhysLoad

SpecPhys == InitPhys /\ [][NextPhys]_vars

\* ------------------------------------------------------------------------
\* applyAttraction on its own: run a with the function of part_002, run b
\* with the one of src/index.ts, fed the same keys
\* ------------------------------------------------------------------------
Attract ==
  /\ phys.n < MaxPhysSteps
  /\ \E k \in KeyStates :
       phys' = [phys EXCEPT !.a = applyAttraction(phys.a, k),
                            !.b = applyAttractionOld(phys.b, k),
                            !.held = k, !.n = @ + 1, !.last = "attract"]
  /\ UNCHANGED <<gameVars, normVars, valVars, server, editor, obsVars>>

SpecAttract == InitPhys /\ [][Attract]_vars

\* ------------------------------------------------------------------------
\* spawnRandomTargets on its own: one load of a timeAttack or sprint level
\* under every outcome of the random draws
\* ------------------------------------------------------------------------
\* A grid with a magnet in the edge column and one with the edge column free.
SpawnGrids == { WallGrid, BuildGrid(FullLayout, {<<2, 0>>}) }

\* The draws of the second loop land on these cells of columns 0 to 3.
SpawnCells == { Pt(1, 0), Pt(0, 1), Pt(2, 0), Pt(3, 3), Pt(2, 3) }

\* Every outcome of the six Math.random() > 0.5 and of the three cells.
AllDraws == [rows : SUBSET Coords, cells : [1 .. 3 -> SpawnCells]]

InitSpawn ==
  /\ game = InitialGame
  /\ keys = [x |-> FALSE, z |-> FALSE]
  /\ urlHash = NullLevel /\ storedLevel = NullLevel
  /\ physicsAccumulatedTime = 0 /\ sinceFrame = 0
  /\ pc = "off" /\ stepsLeft = 0 /\ interpolationFactor = 0
  /\ NormOff
  /\ ValOff
  /\ tracing = FALSE
  /\ trace = NoTrace

\* loadLevel of a timeAttack or sprint level, which ends in
\* spawnRandomTargets.
LoadSpawn ==
  /\ game.currentLevelData = NullLevel
  /\ \E m \in {"timeAttack", "sprint"}, gr \in SpawnGrids, rnd \in AllDraws :
       game' = loadLevel(game, MkLevel(m, gr, << >>), 0, TRUE, rnd)
  /\ UNCHANGED <<keys, urlHash, storedLevel, physicsAccumulatedTime, sinceFrame, pc,
                 stepsLeft, interpolationFactor, callVars, obsVars>>

SpecSpawn == InitSpawn /\ [][LoadSpawn]_vars

\* ------------------------------------------------------------------------
\* The editor: a new level, then tools, stages, modes and cells picked
\* ------------------------------------------------------------------------
\* Cells clicked: the cell of the first player, two corners, a cell outside.
EditorCells == { Pt(2, 2), Pt(0, 0), Pt(5, 5), Pt(6, 0) }

InitEditor ==
  /\ game = InitialGame
  /\ keys = [x |-> FALSE, z |-> FALSE]
  /\ urlHash = NullLevel /\ storedLevel = NullLevel
  /\ physicsAccumulatedTime = 0 /\ sinceFrame = 0
  /\ pc = "off" /\ stepsLeft = 0 /\ interpolationFactor = 0
  /\ NormOff
  /\ valLevel = NullLevel /\ valTarget = NullPos
  /\ valReach = NoSearch /\ valResult = Valid /\ valPc = "off"
  /\ server = ServerOff
  /\ phys = PhysOff
  /\ tracing = FALSE
  /\ trace = NoTrace
  /\ editor = [EditorOff EXCEPT !.level = createEmptyLevel("staged"), !.last = "new"]

\* A click on a tool button.
SelectTool ==
  /\ editor.last # "off"
  /\ \E t \in Tools : editor' = [editor EXCEPT !.currentTool = t, !.last = "tool"]
  /\ UNCHANGED <<gameVars, normVars, valVars, server, phys, obsVars>>

\* A click on a stage button.
SelectStage ==
  /\ editor.last # "off"
  /\ \E i \in 0 .. (DEFAULT_STAGE_COUNT - 1) :
       editor' = [editor EXCEPT !.currentStageIndex = i, !.last = "stage"]
  /\ UNCHANGED <<gameVars, normVars, valVars, server, phys, obsVars>>

\* A change of the game mode select.
SelectGameMode ==
  /\ editor.last # "off"
  /\ \E m \in GameModes : editor' = [editor EXCEPT !.level.gameMode = m, !.last = "mode"]
  /\ UNCHANGED <<gameVars, normVars, valVars, server, phys, obsVars>>

\* A click or a touch on the canvas: placeObject on the cell.
PlaceObject ==
  /\ editor.last # "off"
  /\ editor.n < MaxPlacements
  /\ \E c \in EditorCells :
       editor' = [placeObject(editor, c.x, c.y) EXCEPT !.n = @ + 1, !.last = "place"]
  /\ UNCHANGED <<gameVars, normVars, valVars, server, phys, obsVars>>

NextEditor == SelectTool \/ SelectStage \/ SelectGameMode \/ PlaceObject

SpecEditor == InitEditor /\ [][NextEditor]_vars

\* ------------------------------------------------------------------------
\* Legacy flat levels given to the normalizers and to the editor's import
\* ------------------------------------------------------------------------
\* Flat grids: the sample grids with up to two more "T" cells.
FlatGrids ==
  { OverlayTargets(gr, ts, 1) :
      gr \in NormGrids,
      ts \in { << >>, << Pt(1, 1) >>, << Pt(4, 4), Pt(1, 1) >>, << Pt(0, 5) >>,
                << Pt(3, 2) >>, << Pt(0, 5), Pt(3, 2) >> } }

InitLegacy ==
  /\ game = InitialGame
  /\ keys = [x |-> FALSE, z |-> FALSE]
  /\ urlHash = NullLevel /\ storedLevel = NullLevel
  /\ physicsAccumulatedTime = 0 /\ sinceFrame = 0
  /\ pc = "off" /\ stepsLeft = 0 /\ interpolationFactor = 0
  /\ normLevel \in { FlatLevel(gr) : gr \in FlatGrids }
  /\ normIndex \in 0 .. (DEFAULT_STAGE_COUNT - 1)
  /\ normResult = NullGrid
  /\ normAfter = normLevel
  /\ normPc = "call"
  /\ ValOff
  /\ tracing = FALSE
  /\ trace = NoTrace

\* normalizeLevelData of the game (part_002) on the flat level.
NormalizeFlat ==
  /\ normPc = "call"
  /\ normResult' = normalizeEitherShape(normLevel, normIndex)
  /\ normPc' = "game"
  /\ UNCHANGED <<normLevel, normIndex, normAfter, gameVars, valVars, server, phys, editor, obsVars>>

\* normalizeLevelData of index.ts on the flat level.
NormalizeFlatOld ==
  /\ normPc = "call"
  /\ normResult' = normalizeLevelDataOld(normLevel, normIndex)
  /\ normPc' = "old"
  /\ UNCHANGED <<normLevel, normIndex, normAfter, gameVars, valVars, server, phys, editor, obsVars>>

\* The editor imports the flat level: it is converted, and the converted
\* level is normalized at the stage asked for.
ImportFlat ==
  /\ normPc = "call"
  /\ normAfter' = convertSingleGridToMultiStage(normLevel)
  /\ normResult' = normalizeLevelData(convertSingleGridToMultiStage(normLevel), normIndex)
  /\ normPc' = "imported"
  /\ UNCHANGED <<normLevel, normIndex, gameVars, valVars, server, phys, editor, obsVars>>

NextLegacy == NormalizeFlat \/ NormalizeFlatOld \/ ImportFlat

SpecLegacy == InitLegacy /\ [][NextLegacy]_vars

\* ------------------------------------------------------------------------
\* Properties
\* ------------------------------------------------------------------------
CellCodes == {" ", "P", "R", "B", "T", "W"}

\* The <<x, y>> of the cells of a grid that hold "T".
TargetCellsOf(grid) == { c \in AllCells : grid[c[2]][c[1]] = "T" }

IsFullGrid(grid) ==
  /\ DOMAIN grid = Coords
  /\ \A y \in Coords : DOMAIN grid[y] = Coords /\ \A x \in Coords : grid[y][x] \in CellCodes

NormStageExists == normIndex \in 0 .. (Len(normLevel.stages) - 1)

NormStageTargets == normLevel.stages[normIndex + 1].targets

\* C1: for a staged level whose base grid holds no "T" and an existing stage
\* whose targets all lie in [0,6)x[0,6), the cells equal to "T" in the
\* normalized grid are exactly the coordinates listed in the stage.
C1_RoundTrip ==
  ( /\ normPc = "done"
    /\ normLevel.gameMode = "staged"
    /\ TargetCellsOf(normLevel.baseGrid) = {}
    /\ NormStageExists
    /\ \A k \in 1 .. Len(NormStageTargets) :
          NormStageTargets[k].x \in Coords /\ NormStageTargets[k].y \in Coords )
  => TargetCellsOf(normResult) =
       { <<NormStageTargets[k].x, NormStageTargets[k].y>> : k \in 1 .. Len(NormStageTargets) }

\* C1 witness: stage 1 of a two-stage level, with two in-range targets on
\* different cells, has been normalized.
C1_Witness ==
  /\ normPc = "done"
  /\ normLevel.gameMode = "staged"
  /\ TargetCellsOf(normLevel.baseGrid) = {}
  /\ normIndex = 1
  /\ Len(normLevel.stages) = 2
  /\ normLevel.stages[1].targets = << >>
  /\ normLevel.stages[2].targets = << Pt(1, 1), Pt(5, 0) >>
  /\ Cardinality(TargetCellsOf(normResult)) = 2

\* C3: on a staged level the result is null exactly when stages[i] does not
\* exist and a full grid otherwise; on a timeAttack/sprint level it is never
\* null but a cell-for-cell copy of baseGrid; the level is left as it was.
C3_NullIffNoStage ==
  normPc = "done" =>
    /\ normLevel.gameMode = "staged" =>
         /\ (normResult = NullGrid) <=> ~NormStageExists
         /\ NormStageExists => IsFullGrid(normResult)
    /\ normLevel.gameMode \in {"timeAttack", "sprint"} =>
         /\ normResult # NullGrid
         /\ \A c \in AllCells : normResult[c[2]][c[1]] = normLevel.baseGrid[c[2]][c[1]]
    /\ normAfter = normLevel

\* C3 witness: a staged level with stages, asked for an index past its last
\* stage, gave null.
C3_Witness ==
  /\ normPc = "done"
  /\ normLevel.gameMode = "staged"
  /\ Len(normLevel.stages) > 0
  /\ normIndex = Len(normLevel.stages)
  /\ normResult = NullGrid

Mode == game.currentLevelData.gameMode

Uncollected(targs) == { k \in 1 .. Len(targs) : ~targs[k].collected }

\* The level a load from the editor sources would take, NullLevel if none.
EditorLevel == IF urlHash # NullLevel THEN urlHash ELSE storedLevel

\* A step in which loadLevel(level, 0) is called from initializeGame or
\* restartGame.
FreshLoadStep ==
  \/ pc = "boot" /\ pc' = "idle"
  \/ pc = "idle" /\ pc' = "idle" /\ game.isGameOver /\ ~game'.isGameOver

\* C2: a load whose normalizeLevelData returns null changes no live state:
\* level, stage index, stage count, timers, player and entity sets are as
\* before the call (score and isGameOver too when nothing but loadLevel
\* runs, as at page load).
C2_FailedLoadChangesNothing ==
  [][ ( /\ FreshLoadStep
        /\ EditorLevel # NullLevel
        /\ normalizeLevelData(EditorLevel, 0) = NullGrid )
      => /\ game'.currentLevelData = game.currentLevelData
         /\ game'.currentPlayStageIndex = game.currentPlayStageIndex
         /\ game'.totalStages = game.totalStages
         /\ game'.timeRemaining = game.timeRemaining
         /\ game'.sprintTimeElapsed = game.sprintTimeElapsed
         /\ game'.player = game.player
         /\ game'.targets = game.targets
         /\ game'.walls = game.walls
         /\ game'.redAttractors = game.redAttractors
         /\ game'.blueAttractors = game.blueAttractors
         /\ pc = "boot" => game'.score = game.score /\ game'.isGameOver = game.isGameOver
    ]_vars

\* C4: in sprint mode the game is over exactly when the score has reached
\* 250: the collection that reaches it sets isGameOver in the same
\* checkCollisions call, and nothing sets it below 250.
C4_SprintOverIffScore ==
  Mode = "sprint" => (game.isGameOver <=> game.score >= 250)

\* C4 witness: inside a frame, right after the checkCollisions call that took
\* the sprint score from 240 to 250, the game is over.
C4_Witness ==
  /\ Mode = "sprint"
  /\ pc = "steps"
  /\ game.score = 250
  /\ game.isGameOver

\* C5: in timeAttack mode timeRemaining is 30 after a load or restart, moves
\* only by -1 in a timer tick, stays in 0..30, and the game is over exactly
\* when it is 0 (no collection or full clear ends the game).
C5_TimeAttackCountdown ==
  /\ [](Mode = "timeAttack" =>
          /\ game.timeRemaining \in 0 .. 30
          /\ game.isGameOver <=> game.timeRemaining = 0)
  /\ [][ (Mode' = "timeAttack" /\ FreshLoadStep) => game'.timeRemaining = 30 ]_vars
  /\ [][ (Mode' = "timeAttack" /\ ~FreshLoadStep /\ game'.timeRemaining # game.timeRemaining)
         => /\ pc = "idle" /\ pc' = "steps"
            /\ game.sinceTimerUpdate >= 1000 * TIME_SCALE
            /\ game'.timeRemaining = game.timeRemaining - 1 ]_vars

\* C5 witness: a timeAttack game that collected targets has run out of time.
C5_Witness ==
  /\ Mode = "timeAttack"
  /\ game.timeRemaining = 0
  /\ game.isGameOver
  /\ game.score > 0

\* A checkCollisions call in staged mode in which every uncollected target is
\* under the player, i.e. the call that collects the last uncollected ones.
StagedClearStep ==
  /\ pc = "collide"
  /\ Mode = "staged"
  /\ Uncollected(game.targets) # {}
  /\ \A k \in Uncollected(game.targets) :
        Overlaps(game.player.x, game.player.y, PLAYER_SIZE,
                 game.targets[k].x, game.targets[k].y, TARGET_SIZE)

StagePixels(levelData, stageIndex) ==
  { playGridToPixel(levelData.stages[stageIndex + 1].targets[k].x,
                    levelData.stages[stageIndex + 1].targets[k].y) :
      k \in { j \in 1 .. Len(levelData.stages[stageIndex + 1].targets) :
                /\ levelData.stages[stageIndex + 1].targets[j].x \in Coords
                /\ levelData.stages[stageIndex + 1].targets[j].y \in Coords } }
  \cup { playGridToPixel(c[1], c[2]) : c \in TargetCellsOf(levelData.baseGrid) }

\* C7: collecting the last uncollected target of stage k < last stage moves
\* the stage index to k+1 in that step; the score keeps the points collected
\* (10 per target), the player's (x, y) is not moved, and the targets are
\* those of stage k+1, all uncollected.
C7_StageAdvance ==
  [][ (StagedClearStep /\ game.currentPlayStageIndex < game.totalStages - 1)
      => /\ game'.currentPlayStageIndex = game.currentPlayStageIndex + 1
         /\ game'.score = game.score + 10 * Cardinality(Uncollected(game.targets))
         /\ game'.player.x = game.player.x
         /\ game'.player.y = game.player.y
         /\ { Pt(game'.targets[k].x, game'.targets[k].y) : k \in 1 .. Len(game'.targets) }
              = StagePixels(game.currentLevelData, game.currentPlayStageIndex + 1)
         /\ \A k \in 1 .. Len(game'.targets) : ~game'.targets[k].collected
    ]_vars

\* C7 witness: stage 1 of the two-stage level has just been entered away
\* from the start cell, with the 10 points of stage 0 and two fresh targets.
C7_Witness ==
  /\ Mode = "staged"
  /\ game.currentPlayStageIndex = 1
  /\ game.score = 10
  /\ game.player.x = PlayerStartPixel(1)
  /\ Len(game.targets) = 2
  /\ Uncollected(game.targets) = {1, 2}
  /\ pc = "steps"

\* C8: while isGameOver stays true, score, timers, stage index, targets and
\* the player's position and velocity do not change.
C8_GameOverFreezes ==
  [][ (game.isGameOver /\ game'.isGameOver)
      => /\ game'.score = game.score
         /\ game'.timeRemaining = game.timeRemaining
         /\ game'.sprintTimeElapsed = game.sprintTimeElapsed
         /\ game'.currentPlayStageIndex = game.currentPlayStageIndex
         /\ game'.targets = game.targets
         /\ game'.player = game.player ]_vars

\* C9: isGameOver, once true, is cleared only by a restart (an event between
\* frames that starts a fresh load: score 0, stage 0); and an event between
\* frames while playing restarts nothing: apart from the timer reference the
\* game state is untouched.
C9_GameOverUntilRestart ==
  /\ [][ (game.isGameOver /\ ~game'.isGameOver)
         => /\ pc = "idle" /\ pc' = "idle"
            /\ game'.score = 0
            /\ game'.currentPlayStageIndex = 0 ]_vars
  /\ [][ (~game.isGameOver /\ pc = "idle" /\ pc' = "idle")
         => [game' EXCEPT !.sinceTimerUpdate = 0] = [game EXCEPT !.sinceTimerUpdate = 0] ]_vars

\* C9 witness: a timeAttack game is over and a later frame has gone through
\* the game-over branch of gameLoop (it drew with factor 0 although the
\* accumulator holds a step), leaving isGameOver set.
C9_Witness ==
  /\ pc = "idle"
  /\ game.isGameOver
  /\ Mode = "timeAttack"
  /\ game.timeRemaining = 0
  /\ physicsAccumulatedTime = PHYSICS_DT
  /\ interpolationFactor = 0

\* C10: the interpolation factor computed by gameLoop lies in [0, 1).
C10_InterpolationBelowOne ==
  /\ 0 <= interpolationFactor
  /\ interpolationFactor < PHYSICS_DT

Min(a, b) == IF a < b THEN a ELSE b

\* floor(A / PHYSICS_DT) clamped to MAX_PHYSICS_STEPS, for the backlog A of
\* the last frame.
StepsDue == Min(MAX_PHYSICS_STEPS, trace.backlog \div PHYSICS_DT)

\* A frame has run to its end.
FrameDone == pc = "idle" /\ trace.frames > 0

C12_VisibilityResetsClocks ==
  /\ (pc = "idle" /\ trace.pending) =>
       /\ physicsAccumulatedTime = 0
       /\ sinceFrame = trace.sinceVis
       /\ game.sinceTimerUpdate <= trace.sinceVis
  /\ (FrameDone /\ trace.resumed /\ ~trace.pending) =>
       /\ trace.carried = 0
       /\ trace.elapsed = trace.sinceVis
       /\ trace.steps = IF trace.over THEN 0
                        ELSE Min(MAX_PHYSICS_STEPS, trace.sinceVis \div PHYSICS_DT)
       /\ trace.ticked => trace.sinceVis >= 1000 * TIME_SCALE

\* C12 witness: the page was hidden for more than three seconds, and the
\* frame that came 6.7 ms after the event ran no step and counted no second.
C12_Witness ==
  /\ FrameDone
  /\ trace.resumed
  /\ ~trace.pending
  /\ ~trace.over
  /\ trace.hidden = Stall
  /\ trace.sinceVis = 20
  /\ trace.steps = 0
  /\ ~trace.ticked
  /\ physicsAccumulatedTime = 20

\* Two cells side by side or one above the other.
Adjacent4(m, n) ==
  \/ m[1] = n[1] /\ (m[2] = n[2] + 1 \/ m[2] = n[2] - 1)
  \/ m[2] = n[2] /\ (m[1] = n[1] + 1 \/ m[1] = n[1] - 1)

\* The cells joined to a cell of S by a path of 4-adjacent in-bounds cells
\* none of which, after its first, is "W".
\* The in-bounds cells 4-adjacent to the cell m.
Neighbours4(m) ==
  { n \in { <<m[1] + 1, m[2]>>, <<m[1] - 1, m[2]>>, <<m[1], m[2] + 1>>, <<m[1], m[2] - 1>> } :
      n \in AllCells /\ Adjacent4(m, n) }

Grow(grid, S) ==
  S \cup { n \in UNION { Neighbours4(m) : m \in S } : grid[n[2]][n[1]] # "W" }

RECURSIVE Flood(_, _, _)
Flood(grid, S, N) == IF N = S THEN S ELSE Flood(grid, N, Grow(grid, N))

\* The cells within reach of the player start of a level.
ReachableCells(level) ==
  LET start == findPlayerPosition(level)
  IN Flood(level.baseGrid, {}, {<<start.x, start.y>>})

\* C13: isTargetReachable is true exactly when a path of 4-adjacent
\* in-bounds cells, none after the start a wall, joins the start to the
\* target; so a target outside the grid or on a wall is unreachable; the
\* search ends after taking at most every cell once off its queue.
C13_ReachableIffPath ==
  valPc = "reached" =>
    /\ valReach.found <=> <<valTarget.x, valTarget.y>> \in ReachableCells(valLevel)
    /\ ~isValidGridPos(valTarget.x, valTarget.y) => ~valReach.found
    /\ ( isValidGridPos(valTarget.x, valTarget.y)
         /\ valLevel.baseGrid[valTarget.y][valTarget.x] = "W" ) => ~valReach.found
    /\ valReach.polls <= GRID_SIZE * GRID_SIZE

\* C13 witness: with walls left of and above the far corner and none on
\* its diagonal, the corner (5,5) was searched for from (0,0), through the
\* magnets, over the whole rest of the grid, and not found.
C13_Witness ==
  /\ valPc = "reached"
  /\ valTarget = Pt(5, 5)
  /\ valLevel.baseGrid = BuildGrid(FullLayout, {<<4, 5>>, <<5, 4>>})
  /\ ~valReach.found
  /\ valReach.polls = 33

\* The cells of a grid that hold a code.
CellsOf(grid, code) == { c \in AllCells : grid[c[2]][c[1]] = code }

\* The level has a player and both magnet colours.
Furnished(level) ==
  /\ CellsOf(level.baseGrid, "P") # {}
  /\ CellsOf(level.baseGrid, "R") # {}
  /\ CellsOf(level.baseGrid, "B") # {}

FailingStages(level, reach) ==
  { i \in 1 .. Len(level.stages) :
      \/ Len(level.stages[i].targets) = 0
      \/ \E k \in 1 .. Len(level.stages[i].targets) :
            <<level.stages[i].targets[k].x, level.stages[i].targets[k].y>> \notin reach }

\* C15: a staged level with a player and both magnet colours is valid
\* exactly when every stage has at least one target and every target of
\* every stage is within reach of the player start.
C15_StagedValidIffAllReachable ==
  ( /\ valPc = "validated"
    /\ valLevel.gameMode = "staged"
    /\ Furnished(valLevel) )
  => ( valResult.valid <=> FailingStages(valLevel, ReachableCells(valLevel)) = {} )

\* C15 witness: a two-stage level whose first stage is fine and whose
\* second stage has, after a reachable target, one in the walled-off corner
\* was rejected.
C15_Witness ==
  /\ valPc = "validated"
  /\ valLevel.gameMode = "staged"
  /\ valLevel.baseGrid = BuildGrid(FullLayout, {<<4, 5>>, <<5, 4>>})
  /\ valLevel.stages = << [targets |-> << Pt(3, 3) >>], [targets |-> << Pt(3, 3), Pt(5, 5) >>] >>
  /\ ~valResult.valid

\* The error of the first of the stages `failing`.
FirstStageFailure(level, failing) ==
  IF failing = {} THEN NullError
  ELSE LET i == CHOOSE j \in failing : \A m \in failing : j <= m
       IN IF Len(level.stages[i].targets) = 0
          THEN [text |-> "Stage has no targets", stage |-> i]
          ELSE [text |-> "Stage has unreachable target", stage |-> i]

\* The error of the first failing check, in the order: player, red magnet,
\* blue magnet, then the empty cells (timeAttack, sprint) or the stages in
\* index order, an empty stage coming before an unreachable target.
FirstFailure(level) ==
  IF CellsOf(level.baseGrid, "P") = {} THEN [text |-> "No player placed", stage |-> 0]
  ELSE IF CellsOf(level.baseGrid, "R") = {}
       THEN [text |-> "At least one red magnet required", stage |-> 0]
  ELSE IF CellsOf(level.baseGrid, "B") = {}
       THEN [text |-> "At least one blue magnet required", stage |-> 0]
  ELSE IF level.gameMode \in {"timeAttack", "sprint"}
       THEN IF CellsOf(level.baseGrid, " ") \subseteq ReachableCells(level)
            THEN NullError
            ELSE [text |-> "Level can have unreachable target", stage |-> 0]
  ELSE FirstStageFailure(level, FailingStages(level, ReachableCells(level)))

Answered == server.pc = "idle" /\ server.response # NoResponse

Rejected ==
  \/ server.body.shape = "noLevel"
  \/ server.body.shape = "level" /\ ~validateLevel(server.body.level).valid

\* C17: the publish endpoint publishes a level only after validateLevel found
\* it valid: every step that adds a post adds the level of the request, which
\* validates, and is answered 200 with the id of the new post; a request
\* without level or with a level that fails validation is answered 400 with
\* success false and leaves the posts alone; a valid level whose publishing
\* fails is answered 500 with success false.
C17_PublishOnlyValid ==
  [][ server.pc = "handle" =>
        /\ server'.posts # server.posts =>
              /\ server.body.shape = "level"
              /\ validateLevel(server.body.level).valid
              /\ server'.posts = Append(server.posts, server.body.level)
              /\ server'.response = Response(200, TRUE, Len(server'.posts), NullError)
        /\ Rejected =>
              /\ server'.posts = server.posts
              /\ server'.response.status = 400
              /\ ~server'.response.success
        /\ server'.response.status = 200 => server'.posts # server.posts
        /\ (server.body.shape = "level" /\ validateLevel(server.body.level).valid
              /\ server'.posts = server.posts) =>
              /\ server'.response.status = 500
              /\ ~server'.response.success ]_vars

\* An invalid level was rejected with 400 after an earlier level was published.
C17_Witness ==
  /\ Answered
  /\ server.posts = << OneStageLevel >>
  /\ server.body = Body("level", PocketLevel)
  /\ server.response.status = 400

\* The grid the game parsed at its last load, and what it parsed from it.
LoadedGrid == normalizeLevelData(game.currentLevelData, game.currentPlayStageIndex)

Loaded == valPc = "loaded"

\* C18: once validateLevel accepted a level, the normalized grid of each of
\* its stages holds a "P" cell, so parseGrid takes the player start from a
\* "P" cell of the base grid and never falls back to (2,2); loaded with the
\* state reset, the player stands on that cell.
C18_PlayerStartFound ==
  Loaded =>
    LET parsed == parseGrid(LoadedGrid)
    IN /\ Len(CellsWith(LoadedGrid, "P")) > 0
       /\ game.currentLevelData.baseGrid[parsed.playerY][parsed.playerX] = "P"
       /\ game.currentPlayStageIndex = 0 =>
            /\ game.player.x = PlayerStartPixel(parsed.playerX)
            /\ game.player.y = PlayerStartPixel(parsed.playerY)

\* What parseGrid reads of the base layout: player start, magnets, walls.
BaseLayout(grid) ==
  LET parsed == parseGrid(grid)
  IN [playerX |-> parsed.playerX, playerY |-> parsed.playerY,
      reds |-> parsed.reds, blues |-> parsed.blues, wallList |-> parsed.wallList]

\* C19: for every level and every stage index for which normalizeLevelData
\* returns a grid, the player start, the red and blue magnets and the walls
\* parsed from that grid are those parsed from the base grid, and every
\* "P", "R", "B" or "W" cell of the base grid is unchanged in the result.
C19_BaseLayoutInvariant ==
  (normPc = "done" /\ normResult # NullGrid) =>
    /\ BaseLayout(normResult) = BaseLayout(normLevel.baseGrid)
    /\ \A c \in AllCells :
         normLevel.baseGrid[c[2]][c[1]] \in {"P", "R", "B", "W"} =>
           normResult[c[2]][c[1]] = normLevel.baseGrid[c[2]][c[1]]

\* The cell a target's pixel position lies in.
TargetCell(t) == <<t.x \div PLAY_CELL_SIZE, t.y \div PLAY_CELL_SIZE>>

\* C20: once validateLevel accepted a timeAttack or sprint level and the
\* game loaded it, every target spawned lies on a cell joined to the parsed
\* player start by a path of 4-adjacent cells without wall.
C20_SpawnedTargetsReachable ==
  (Loaded /\ game.currentLevelData.gameMode \in {"timeAttack", "sprint"}) =>
    LET parsed == parseGrid(LoadedGrid)
        reach == Flood(LoadedGrid, {}, {<<parsed.playerX, parsed.playerY>>})
    IN \A k \in 1 .. Len(game.targets) : TargetCell(game.targets[k]) \in reach

InRangeTargetCells ==
  { <<NormStageTargets[k].x, NormStageTargets[k].y>> :
      k \in { j \in 1 .. Len(NormStageTargets) :
                NormStageTargets[j].x \in Coords /\ NormStageTargets[j].y \in Coords } }

HasOutOfRangeTarget ==
  \E k \in 1 .. Len(NormStageTargets) :
     NormStageTargets[k].x \notin Coords \/ NormStageTargets[k].y \notin Coords

\* C22: normalizing an existing stage returns a full 6x6 grid (nothing is
\* thrown, no row grows) in which the cells of the in-range targets hold
\* "T" and every other cell holds what the base grid holds; a target with
\* x or y outside [0,6) changes no cell.
C22_OutOfRangeDropped ==
  (normPc = "done" /\ normLevel.gameMode = "staged" /\ NormStageExists) =>
    /\ IsFullGrid(normResult)
    /\ \A c \in AllCells :
         normResult[c[2]][c[1]] =
           IF c \in InRangeTargetCells THEN "T" ELSE normLevel.baseGrid[c[2]][c[1]]

\* A stage listing an out-of-range target before an in-range one has been
\* normalized: the in-range one is in the grid.
C22_Witness ==
  /\ normPc = "done"
  /\ normLevel.gameMode = "staged"
  /\ normLevel.baseGrid = WallGrid
  /\ normIndex = 0
  /\ Len(normLevel.stages) = 1
  /\ NormStageTargets = << Pt(2, 6), Pt(1, 1) >>
  /\ HasOutOfRangeTarget
  /\ TargetCellsOf(normResult) = { <<1, 1>> }

\* C23: with the player start fixed, the empty cells found on the grid with
\* a cell other than the start turned into a wall are among those found on
\* the grid as it was, and the walled cell is not among them.
C23_WallShrinksReach ==
  (valPc = "walled" /\ valTarget # findPlayerPosition(valLevel)) =>
    /\ valReach.after \subseteq valReach.before
    /\ <<valTarget.x, valTarget.y>> \notin valReach.after

\* The wall at (2,0) closes the start corner: cells were found before, none
\* after.
C23_Witness ==
  /\ valPc = "walled"
  /\ valTarget = Pt(2, 0)
  /\ valLevel.baseGrid = BuildGrid(FullLayout, {<<1, 1>>, <<0, 2>>})
  /\ Cardinality(valReach.before) > 1
  /\ valReach.after = {}

\* C24: a normalizer of the game given a flat level returns the grid of
\* that level, cell for cell, whatever the stage index.
C24_FlatPassThrough ==
  normPc \in {"game", "old"} => normResult = normLevel.grid

\* C25: the level the editor makes of a flat level is staged, has exactly
\* one stage, whose targets are the "T" cells of the flat grid, and a base
\* grid equal to the flat grid with those cells emptied; normalized at
\* stage 0 it gives the flat grid back.
C25_FlatAsOneStage ==
  normPc = "imported" =>
    /\ normAfter.gameMode = "staged"
    /\ Len(normAfter.stages) = 1
    /\ PosSet(normAfter.stages[1].targets) = TargetCellsOf(normLevel.grid)
    /\ \A c \in AllCells :
         normAfter.baseGrid[c[2]][c[1]] =
           IF normLevel.grid[c[2]][c[1]] = "T" THEN " " ELSE normLevel.grid[c[2]][c[1]]
    /\ normIndex = 0 => normResult = normLevel.grid

Stepped == phys.last = "step"

\* C26: after every physics step the player's box lies inside the play
\* field, 0 <= x <= width - size and 0 <= y <= height - size, whatever the
\* walls, the keys and the velocity.
C26_PlayerInsideField ==
  Stepped =>
    /\ 0 <= phys.a.player.x /\ phys.a.player.x <= CANVAS_WIDTH - PLAYER_SIZE
    /\ 0 <= phys.a.player.y /\ phys.a.player.y <= CANVAS_WIDTH - PLAYER_SIZE

\* C27: after every physics step the player's box overlaps no wall cell,
\* whatever the walls (walls side by side included), the keys and the
\* velocity.
C27_NoWallOverlap ==
  Stepped =>
    \A k \in 1 .. Len(phys.a.walls) : ~OverlapsWall(phys.a.player, phys.a.walls[k])

\* The player as the walls find them: attracted, moved, kept on the canvas.
BeforeWalls(g, heldKeys) == ClampToField(Integrate(applyAttraction(g, heldKeys).player, heldKeys))

\* The side of the least of the four depths; of equal least depths the
\* first of left, right, top, bottom.
SideOut(plr, wall) ==
  LET left == plr.x + PLAYER_SIZE - wall.x
      right == wall.x + PLAY_CELL_SIZE - plr.x
      top == plr.y + PLAYER_SIZE - wall.y
      bottom == wall.y + PLAY_CELL_SIZE - plr.y
  IN IF left <= right /\ left <= top /\ left <= bottom THEN "left"
     ELSE IF right <= top /\ right <= bottom THEN "right"
     ELSE IF top <= bottom THEN "top"
     ELSE "bottom"

\* The player outside the wall on that side, only that axis stopped.
Outside(plr, wall, side) ==
  CASE side = "left" -> [plr EXCEPT !.x = wall.x - PLAYER_SIZE, !.vx = 0]
    [] side = "right" -> [plr EXCEPT !.x = wall.x + PLAY_CELL_SIZE, !.vx = 0]
    [] side = "top" -> [plr EXCEPT !.y = wall.y - PLAYER_SIZE, !.vy = 0]
    [] side = "bottom" -> [plr EXCEPT !.y = wall.y + PLAY_CELL_SIZE, !.vy = 0]

RECURSIVE OutsideEach(_, _, _)
OutsideEach(plr, wallList, k) ==
  IF k > Len(wallList) THEN plr
  ELSE OutsideEach(IF OverlapsWall(plr, wallList[k])
                   THEN Outside(plr, wallList[k], SideOut(plr, wallList[k]))
                   ELSE plr,
                   wallList, k + 1)

\* C28: a physics step leaves the player where the walls, each in its turn,
\* put them: a wall the player overlaps pushes them out on the side of the
\* least of the four overlap depths (of equal least depths the first of
\* left, right, top, bottom) and sets only that axis' velocity to 0.
C28_PushOutLeastOverlap ==
  [][phys'.last = "step" =>
       phys'.a.player = OutsideEach(BeforeWalls(phys.a, phys'.held), phys.a.walls, 1)]_vars

\* The first step from cell (0,2) at 16 px down and right: the depths left
\* and top of wall (1,3) are both 14.5 px; the player ends on the wall's
\* left, still falling.
C28_Witness ==
  /\ phys.last = "step" /\ phys.n = 1
  /\ \E k \in 1 .. Len(phys.a.walls) :
       /\ phys.a.player.x = phys.a.walls[k].x - PLAYER_SIZE
       /\ phys.a.player.y + PLAYER_SIZE - phys.a.walls[k].y = 14 * SCALE + SCALE \div 2
  /\ phys.a.player.vx = 0
  /\ phys.a.player.vy = 16 * SCALE

\* The player's top or bottom edge lies on the edge of the field or of a wall.
StoppedInY(g) ==
  \/ g.player.y \in {0, CANVAS_WIDTH - PLAYER_SIZE}
  \/ \E k \in 1 .. Len(g.walls) :
       g.player.y \in {g.walls[k].y - PLAYER_SIZE, g.walls[k].y + PLAY_CELL_SIZE}

\* C29: a physics step adds gravity to vy exactly when hasAttracted was true
\* before it and no key is held in it; a step sets hasAttracted when a key
\* is held and never clears it; loadLevel clears it.
C29_GravityAfterFirstAttraction ==
  [][/\ phys'.last = "load" => ~phys'.a.player.hasAttracted
     /\ phys'.last = "step" =>
          LET idle == ~phys'.held.x /\ ~phys'.held.z
              pulled == applyAttraction(phys.a, phys'.held).player
              gravity == IF phys.a.player.hasAttracted /\ idle
                         THEN GRAVITY * PHYSICS_SPEED ELSE 0
          IN /\ phys'.a.player.hasAttracted = (phys.a.player.hasAttracted \/ ~idle)
             /\ \/ phys'.a.player.vy = pulled.vy + gravity
                \/ phys'.a.player.vy = 0 /\ StoppedInY(phys'.a)]_vars

\* A step without key after a step with one: the player, at rest until
\* then, falls with the gravity of one step.
C29_Witness ==
  /\ phys.last = "step"
  /\ ~phys.held.x /\ ~phys.held.z
  /\ phys.a.player.hasAttracted
  /\ phys.a.player.vy = GRAVITY * PHYSICS_SPEED
  /\ ~StoppedInY(phys.a)

\* The indices of the attractors at the least distance from the player.
Nearest(plr, attractors) ==
  { k \in 1 .. Len(attractors) :
      \A j \in 1 .. Len(attractors) : Dist2(plr, attractors[k]) <= Dist2(plr, attractors[j]) }

\* The pull of one polarity: that of the first of the nearest attractors,
\* nothing without attractor or within the minimum distance.
PullOfNearest(plr, attractors, Force(_, _, _, _)) ==
  IF Nearest(plr, attractors) = {} THEN NoForce
  ELSE LET k == CHOOSE i \in Nearest(plr, attractors) :
                  \A j \in Nearest(plr, attractors) : i <= j
           d2 == Dist2(plr, attractors[k])
       IN IF d2 <= MIN_ATTRACTION_DISTANCE * MIN_ATTRACTION_DISTANCE THEN NoForce
          ELSE Force(CentreDx(plr, attractors[k]), CentreDy(plr, attractors[k]), d2, Sqrt(d2))

\* The velocity after the pulls of the held polarities.
PulledByNearest(g, heldKeys, Force(_, _, _, _)) ==
  LET red == IF heldKeys.x THEN PullOfNearest(g.player, g.redAttractors, Force) ELSE NoForce
      blue == IF heldKeys.z THEN PullOfNearest(g.player, g.blueAttractors, Force) ELSE NoForce
  IN [vx |-> g.player.vx + red.vx + blue.vx, vy |-> g.player.vy + red.vy + blue.vy]

Velocity(g) == [vx |-> g.player.vx, vy |-> g.player.vy]

\* The function of part_002 pulls towards the nearest attractor only.
NearestOnlyNew ==
  [][phys'.last = "attract" =>
       Velocity(phys'.a) = PulledByNearest(phys.a, phys'.held, ForceOf)]_vars

\* C30: applyAttraction adds to the velocity, for each polarity whose key is
\* held, the force of the one attractor of that polarity nearest to the
\* player's centre (the first in scan order of equally near ones), nothing
\* if there is none or it is within the minimum distance, and never the sum
\* over the attractors of the polarity; this in both versions of the
\* function the claim names.
C30_NearestAttractorOnly ==
  [][phys'.last = "attract" =>
       /\ Velocity(phys'.a) = PulledByNearest(phys.a, phys'.held, ForceOf)
       /\ Velocity(phys'.b) = PulledByNearest(phys.b, phys'.held, ForceOfOld)]_vars

\* The start cell the codec is said to give: the first "P" of the scan,
\* (2, 2) for a grid without one.
FirstPlayerCell(grid) ==
  IF \E c \in AllCells : grid[c[2]][c[1]] = "P"
  THEN LET y == CHOOSE r \in Coords :
                  /\ \E x \in Coords : grid[r][x] = "P"
                  /\ \A q \in Coords : q < r => \A x \in Coords : grid[q][x] # "P"
           x == CHOOSE c \in Coords :
                  /\ grid[y][c] = "P"
                  /\ \A q \in Coords : q < c => grid[y][q] # "P"
       IN Pt(x, y)
  ELSE Pt(2, 2)

\* C31: parseGrid gives as player start the first "P" cell of the grid in
\* row-major order, (2,2) for a grid without "P"; a level loaded with the
\* state reset puts the player on that cell.
C31_FirstPlayerCellWins ==
  Loaded =>
    /\ parseGrid(LoadedGrid).playerX = FirstPlayerCell(LoadedGrid).x
    /\ parseGrid(LoadedGrid).playerY = FirstPlayerCell(LoadedGrid).y
    /\ game.currentPlayStageIndex = 0 =>
         /\ game.player.x = PlayerStartPixel(FirstPlayerCell(LoadedGrid).x)
         /\ game.player.y = PlayerStartPixel(FirstPlayerCell(LoadedGrid).y)

PlayerCellsOf(grid) == { c \in AllCells : grid[c[2]][c[1]] = "P" }

\* C32: in the editor the base grid never holds more than one "P" cell,
\* whatever tools, stages, modes and cells are picked after
\* createEmptyLevel.
C32_AtMostOnePlayer ==
  editor.last # "off" => Cardinality(PlayerCellsOf(editor.level.baseGrid)) <= 1

\* The player tool was used on another cell than the one of
\* createEmptyLevel: the player is there and nowhere else.
C32_Witness ==
  /\ editor.last = "place"
  /\ editor.currentTool = "player"
  /\ PlayerCellsOf(editor.level.baseGrid) = { <<5, 5>> }
  /\ editor.level.baseGrid[0][0] = "W"

\* The cell a target lies in.
CellOfTarget(t) == Pt(t.x \div PLAY_CELL_SIZE, t.y \div PLAY_CELL_SIZE)

Spawned == game.currentLevelData # NullLevel

\* C33: the targets of spawnRandomTargets are uncollected, lie on no cell
\* that holds a wall or a magnet, come from column 5 (one per row at most)
\* and from columns 0 to 3 (three at most), nine at most in all.
C33_SpawnedOffWallsAndMagnets ==
  Spawned =>
    LET grid == game.currentLevelData.baseGrid
        cells == [k \in 1 .. Len(game.targets) |-> CellOfTarget(game.targets[k])]
    IN /\ \A k \in 1 .. Len(cells) :
            /\ ~game.targets[k].collected
            /\ game.targets[k] = MkTarget(playGridToPixel(cells[k].x, cells[k].y))
            /\ grid[cells[k].y][cells[k].x] \notin {"W", "R", "B"}
            /\ cells[k].x \in (0 .. 3) \cup {5}
       /\ \A j, k \in 1 .. Len(cells) :
            (j < k /\ cells[j].x = 5 /\ cells[k].x = 5) => cells[j].y < cells[k].y
       /\ Cardinality({ k \in 1 .. Len(cells) : cells[k].x <= 3 }) <= 3
       /\ Len(cells) <= 9

\* Draws that hit a magnet or a wall were left out: with the red magnet in
\* the edge column, five targets of the edge column and one of the three
\* cells drawn are left.
C33_Witness ==
  /\ Spawned
  /\ game.currentLevelData.baseGrid = WallGrid
  /\ Len(game.targets) = 6
  /\ Cardinality({ k \in 1 .. Len(game.targets) : CellOfTarget(game.targets[k]).x = 5 }) = 5

\* The targets the player's box lies on that are not collected yet.
NewHits(g) ==
  { k \in 1 .. Len(g.targets) : ~g.targets[k].collected /\ PlayerHits(g, g.targets[k]) }

\* C34: the score is never negative; checkCollisions adds 10 for each target
\* it marks collected, and a target already collected is not counted again;
\* a fresh load (initializeGame, restartGame) sets the score to 0 and no
\* other step changes it.
C34_TenPerCollectedTarget ==
  [][/\ game.score >= 0 /\ game'.score >= 0
     /\ IF pc = "collide"
        THEN game'.score = game.score + 10 * Cardinality(NewHits(game))
        ELSE IF FreshLoadStep
        THEN game'.score = 0
        ELSE game'.score = game.score]_vars

\* Two targets were collected since the load and one of the shown targets
\* is collected, another is not.
C34_Witness ==
  /\ game.score = 2 * COLLECT_POINTS
  /\ \E j, k \in 1 .. Len(game.targets) :
       game.targets[j].collected /\ ~game.targets[k].collected

\* Every target shown is collected once checkCollisions has marked the ones
\* under the player.
ClearedInStep(g) == \A k \in 1 .. Len(g.targets) : g.targets[k].collected \/ k \in NewHits(g)

RestartStep == pc = "idle" /\ pc' = "idle" /\ game.isGameOver /\ ~game'.isGameOver

\* C36: restartGame leaves the session as a fresh load of the level that was
\* being played: the same level at stage 0, not over, score 0, the timer at
\* its initial value for the mode, the player at rest on the start cell of
\* the level, no target collected.
C36_RestartReloadsPlayedLevel ==
  [][RestartStep =>
       LET level == game.currentLevelData
           parsed == parseGrid(normalizeLevelData(level, 0))
       IN /\ game'.currentLevelData = level
          /\ game'.currentPlayStageIndex = 0
          /\ game'.score = 0
          /\ level.gameMode = "timeAttack" => game'.timeRemaining = TIME_ATTACK_DURATION
          /\ level.gameMode \in {"sprint", "staged"} => game'.sprintTimeElapsed = 0
          /\ game'.player.x = PlayerStartPixel(parsed.playerX)
          /\ game'.player.y = PlayerStartPixel(parsed.playerY)
          /\ game'.player.vx = 0 /\ game'.player.vy = 0
          /\ Uncollected(game'.targets) = 1 .. Len(game'.targets)]_vars

\* The stage indices the game asks of a level: 0 at the first load, then
\* each index below totalStages.
ReachedIndices(level) ==
  {0} \cup (IF level.gameMode = "staged" THEN 0 .. (StageCount(level) - 1) ELSE {})

\* C37: a level that validateLevel accepted is normalized to a grid, not to
\* null, at stage 0 and at every stage index the game reaches.
C37_AcceptedLevelLoads ==
  (valPc \in {"validated", "loaded"} /\ valResult.valid) =>
    \A i \in ReachedIndices(valLevel) : normalizeLevelData(valLevel, i) # NullGrid

\* C38: each stage of a staged level that validateLevel accepted is played
\* with at least one red and one blue attractor.
C38_MagnetsInEveryStage ==
  (Loaded /\ valLevel.gameMode = "staged") =>
    /\ Len(game.redAttractors) > 0
    /\ Len(game.blueAttractors) > 0

\* The server and the editor have both validated valLevel.
BothValidated == valPc = "editorValidated"

\* C39: the editor's validateLevel and the server's validateLevel return
\* the same valid flag and the same error for the same level.
C39_ValidatorsAgree ==
  BothValidated => (valReach.valid = valResult.valid /\ valReach.error = valResult.error)

\* Both validators refused a staged level for an unreachable target in its
\* second stage.
C39_Witness ==
  /\ BothValidated
  /\ ~valReach.valid
  /\ valResult = Invalid("Stage has unreachable target", 2)

\* The whole seconds in a time on the timer's clock.
TicksDue(t) == t \div TIMER_PERIOD

\* A frame of the running game whose two clocks have advanced together since
\* the frame before.
RunningFrame == pc = "idle" /\ pc' = "steps" /\ game.sinceTimerUpdate >= sinceFrame

\* C40: the gap before a frame adds no more seconds to what the timer
\* counts than a gap of the backlog ceiling of 2000 ms would add, which is
\* at most two.
C40_TimerGapCapped ==
  [][RunningFrame =>
       LET r == (game.sinceTimerUpdate - sinceFrame) % TIMER_PERIOD
       IN /\ TicksDue(r + sinceFrame) <= TicksDue(r + MAX_BACKLOG)
          /\ TicksDue(r + sinceFrame) <= 2]_vars

\* No three seconds are counted in three frames of which the first came
\* after a single stall of three seconds and the other two 6.7 ms apart.
NoThreeTicksForOneGap ==
  ~( /\ pc = "idle" /\ trace.frames = 3 /\ trace.ticked
     /\ game.sprintTimeElapsed = 3
     /\ trace.elapsed = 20 /\ game.sinceTimerUpdate < 100 )

====
